---- MODULE Spec2Model ----
(***************************************************************************)
(* Specky: an OpenAPI document is turned into MCP tools and served either  *)
(* in Full mode (one tool per endpoint) or in Search mode (two meta-tools: *)
(* search_endpoints and call_endpoint).                                    *)
(*                                                                         *)
(* Strings of the program are sequences of one-character strings, so that  *)
(* includes(), toLowerCase(), replace() and split() are computed, not      *)
(* assumed.  JavaScript values are records [t |-> type tag, v |-> text].   *)
(***************************************************************************)
EXTENDS Integers, Sequences, FiniteSets, TLC

----------------------------------------------------------------------------
(* Bounds of the model *)

\* invocations the transport may have in flight at the same time
MaxInFlight == 2

----------------------------------------------------------------------------
(* State of one server process *)

VARIABLES
    mode,        \* "full" (createSpeckyServer) or "search" (createSearchModeServer)
    config,      \* SpeckyConfig the server was created with
    cli,         \* what the CLI action computed before it created the server
    server,      \* what the handlers close over: tools (allTools in Search
                 \* mode), metaTools, baseUrl, authHeaders
    inflight,    \* per request slot: the invocation that waits for fetch
    last,        \* the handler call that ended last, with what it handed back
    errors       \* some invocation ended with an error result or by throwing

vars == <<mode, config, cli, server, inflight, last, errors>>

----------------------------------------------------------------------------
(* String primitives *)

UpperLetters == <<"A","B","C","D","E","F","G","H","I","J","K","L","M",
                  "N","O","P","Q","R","S","T","U","V","W","X","Y","Z">>

LowerLetters == <<"a","b","c","d","e","f","g","h","i","j","k","l","m",
                  "n","o","p","q","r","s","t","u","v","w","x","y","z">>

Digits == {"0","1","2","3","4","5","6","7","8","9"}

IsUpper(c) == \E i \in 1..26 : UpperLetters[i] = c

IsLower(c) == \E i \in 1..26 : LowerLetters[i] = c

IsDigit(c) == c \in Digits

\* one UTF-16 code unit that is a surrogate without its pair
LoneSurrogate == "uD800"

toLowerCaseChar(c) ==
    IF IsUpper(c) THEN LowerLetters[CHOOSE i \in 1..26 : UpperLetters[i] = c]
    ELSE c

toUpperCaseChar(c) ==
    IF IsLower(c) THEN UpperLetters[CHOOSE i \in 1..26 : LowerLetters[i] = c]
    ELSE c

\* String.prototype.toLowerCase
toLowerCase(s) == [i \in 1..Len(s) |-> toLowerCaseChar(s[i])]

\* String.prototype.toUpperCase
toUpperCase(s) == [i \in 1..Len(s) |-> toUpperCaseChar(s[i])]

\* String.prototype.includes: t occurs in s as a contiguous run
includes(s, t) ==
    \E i \in 0..(Len(s) - Len(t)) : SubSeq(s, i + 1, i + Len(t)) = t

\* String.prototype.startsWith
startsWith(s, t) == Len(t) <= Len(s) /\ SubSeq(s, 1, Len(t)) = t

----------------------------------------------------------------------------
(* JavaScript values carried by an argument mapping *)

Undefined == [t |-> "undefined", v |-> <<"u","n","d","e","f","i","n","e","d">>]

Str(s) == [t |-> "string", v |-> s]

\* a number is written by its decimal numeral
Num(digits) == [t |-> "number", v |-> digits]

\* an array; items are its elements (strings of the program, or values)
Arr(items) == [t |-> "array", v |-> items]

Null == [t |-> "null", v |-> <<"n","u","l","l">>]

Bool(b) == [t |-> "boolean",
            v |-> IF b THEN <<"t","r","u","e">> ELSE <<"f","a","l","s","e">>]

\* a plain object {...}: entries maps its keys to their values
Obj(entries) == [t |-> "object", v |-> entries]

s_objectObject == <<"[","o","b","j","e","c","t"," ","O","b","j","e","c","t","]">>

RECURSIVE joinStrings(_, _)
joinStrings(parts, sep) ==
    IF Len(parts) = 0 THEN <<>>
    ELSE IF Len(parts) = 1 THEN parts[1]
    ELSE parts[1] \o sep \o joinStrings(Tail(parts), sep)

\* String(value)
String(val) ==
    CASE val.t = "object" -> s_objectObject
      [] val.t = "array"  -> joinStrings(val.v, <<",">>)
      [] OTHER            -> val.v

\* ToBoolean(value): undefined, null, false, 0 and "" are falsy
Truthy(val) ==
    CASE val.t = "undefined" -> FALSE
      [] val.t = "null"      -> FALSE
      [] val.t = "boolean"   -> val.v = <<"t","r","u","e">>
      [] val.t = "string"    -> Len(val.v) > 0
      [] val.t = "number"    -> val.v # <<"0">>
      [] OTHER               -> TRUE

\* args[key]: the value of the key, undefined when the mapping has no such key
Get(args, key) == IF key \in DOMAIN args THEN args[key] ELSE Undefined

NoArgs == [k \in {} |-> Undefined]

----------------------------------------------------------------------------
(* Texts of the loaded document and of the program *)

s_get == <<"g","e","t">>

s_post == <<"p","o","s","t">>

s_pet == <<"p","e","t">>

s_store == <<"s","t","o","r","e">>

s_id == <<"i","d">>

s_q == <<"q">>

s_h == <<"h">>

s_note == <<"n","o","t","e">>

s_body == <<"b","o","d","y">>

s_query == <<"q","u","e","r","y">>

s_tags == <<"t","a","g","s">>

s_methods == <<"m","e","t","h","o","d","s">>

s_limit == <<"l","i","m","i","t">>

s_endpoint_id == <<"e","n","d","p","o","i","n","t","_","i","d">>

s_search_endpoints ==
    <<"s","e","a","r","c","h","_","e","n","d","p","o","i","n","t","s">>

s_call_endpoint == <<"c","a","l","l","_","e","n","d","p","o","i","n","t">>

s_json == <<"a","p","p","l","i","c","a","t","i","o","n","/","j","s","o","n">>

s_ContentType == <<"C","o","n","t","e","n","t","-","T","y","p","e">>

s_Authorization == <<"A","u","t","h","o","r","i","z","a","t","i","o","n">>

s_Bearer == <<"B","e","a","r","e","r"," ">>

s_baseUrl == <<"h","t","t","p",":","/","/","x">>

----------------------------------------------------------------------------
(* ParsedEndpoint, ParameterInfo, RequestBodyInfo (types/index.ts) *)

ParameterInfo(name, required) == [name |-> name, required |-> required]

\* requestBody?: undefined
NoRequestBody ==
    [present |-> FALSE, required |-> FALSE, contentType |-> <<>>,
     schemaType |-> "", schemaHasProps |-> FALSE, schemaProps |-> <<>>,
     schemaRequired |-> <<>>]

\* schema: its type, whether it has a properties map, the keys of the map in
\* order, and its required list
RequestBodyInfo(required, contentType, schemaType, hasProps, props, req) ==
    [present |-> TRUE, required |-> required, contentType |-> contentType,
     schemaType |-> schemaType, schemaHasProps |-> hasProps,
     schemaProps |-> props, schemaRequired |-> req]

\* GET /pet/{id}, operationId getPet
EpGetPet ==
    [operationId |-> <<"g","e","t","P","e","t">>,
     method |-> s_get,
     path |-> <<"/","p","e","t","/","{","i","d","}">>,
     summary |-> <<"F","i","n","d"," ","p","e","t">>,
     description |-> <<>>,
     pathParams |-> <<ParameterInfo(s_id, TRUE)>>,
     queryParams |-> <<>>,
     headerParams |-> <<>>,
     requestBody |-> NoRequestBody,
     tags |-> <<s_pet>>]

\* GET /pet/{id}/x?q=, operationId getPetX, no summary
EpGetPetX ==
    [operationId |-> <<"g","e","t","P","e","t","X">>,
     method |-> s_get,
     path |-> <<"/","p","e","t","/","{","i","d","}","/","x">>,
     summary |-> <<>>,
     description |-> <<>>,
     pathParams |-> <<ParameterInfo(s_id, TRUE)>>,
     queryParams |-> <<ParameterInfo(s_q, FALSE)>>,
     headerParams |-> <<>>,
     requestBody |-> NoRequestBody,
     tags |-> <<s_pet>>]

\* POST /store, operationId addOrder, a JSON object body {note}, header h
EpAddOrder ==
    [operationId |-> <<"a","d","d","O","r","d","e","r">>,
     method |-> s_post,
     path |-> <<"/","s","t","o","r","e">>,
     summary |-> <<"A","d","d">>,
     description |-> <<>>,
     pathParams |-> <<>>,
     queryParams |-> <<>>,
     headerParams |-> <<ParameterInfo(s_h, FALSE)>>,
     requestBody |-> RequestBodyInfo(TRUE, s_json, "object", TRUE, <<s_note>>, <<s_note>>),
     tags |-> <<s_store>>]

\* DELETE /pet/{id}, operationId deletePet, header api_key, no request body
EpDeletePet ==
    [operationId |-> <<"d","e","l","e","t","e","P","e","t">>,
     method |-> <<"d","e","l","e","t","e">>,
     path |-> <<"/","p","e","t","/","{","i","d","}">>,
     summary |-> <<>>,
     description |-> <<>>,
     pathParams |-> <<ParameterInfo(s_id, TRUE)>>,
     queryParams |-> <<>>,
     headerParams |-> <<ParameterInfo(<<"a","p","i","_","k","e","y">>, FALSE)>>,
     requestBody |-> NoRequestBody,
     tags |-> <<s_pet>>]

\* GET /pets/{id}, operationId get-pet, which gives the tool name of getPet;
\* it declares the header parameter Authorization
EpGetPets ==
    [operationId |-> <<"g","e","t","-","p","e","t">>,
     method |-> s_get,
     path |-> <<"/","p","e","t","s","/","{","i","d","}">>,
     summary |-> <<>>,
     description |-> <<>>,
     pathParams |-> <<ParameterInfo(s_id, TRUE)>>,
     queryParams |-> <<>>,
     headerParams |-> <<ParameterInfo(s_Authorization, FALSE)>>,
     requestBody |-> NoRequestBody,
     tags |-> <<s_pet>>]

\* the endpoints of the document the server is started on, in document order
DocumentEndpoints == <<EpGetPet, EpGetPetX, EpAddOrder, EpDeletePet>>

\* parseSpec(config.spec) for a document that holds the first n operations;
\* a greater n stands for the document of get-pet and getPet, two operations
\* whose tool names are the same
parseSpec(n) ==
    [title |-> <<"P","e","t","s">>, baseUrl |-> s_baseUrl,
     endpoints |-> IF n <= Len(DocumentEndpoints)
                   THEN SubSeq(DocumentEndpoints, 1, n)
                   ELSE <<EpGetPets, EpGetPet>>]

----------------------------------------------------------------------------
(* Tool generation (generator/mcp-tools.ts) *)

\* .replace(/([a-z])([A-Z])/g, '$1_$2')
RECURSIVE camelToSnake(_)
camelToSnake(s) ==
    IF Len(s) < 2 THEN s
    ELSE IF IsLower(s[1]) /\ IsUpper(s[2])
         THEN <<s[1], "_">> \o camelToSnake(Tail(s))
         ELSE <<s[1]>> \o camelToSnake(Tail(s))

\* .replace(/[^a-zA-Z0-9_]/g, '_')
replaceNonWord(s) ==
    [i \in 1..Len(s) |->
        IF IsLower(s[i]) \/ IsUpper(s[i]) \/ IsDigit(s[i]) \/ s[i] = "_"
        THEN s[i] ELSE "_"]

\* a generateToolName without the final toLowerCase
generateToolNameNoLowerCase(endpoint) ==
    replaceNonWord(camelToSnake(endpoint.operationId))

generateToolName(endpoint) ==
    toLowerCase(replaceNonWord(camelToSnake(endpoint.operationId)))

generateToolDescription(endpoint) ==
    LET first == IF Len(endpoint.summary) > 0 THEN endpoint.summary
                 ELSE toUpperCase(endpoint.method) \o <<" ">> \o endpoint.path
        second == IF Len(endpoint.description) > 0
                     /\ endpoint.description # endpoint.summary
                  THEN <<"\n", "\n">> \o endpoint.description ELSE <<>>
        third == IF Len(endpoint.tags) > 0
                 THEN <<"\n", "\n", "T","a","g","s",":"," ">> \o joinStrings(endpoint.tags, <<",", " ">>)
                 ELSE <<>>
    IN  first \o second \o third

\* the names of a parameter list, in order
paramNames(params) == [i \in 1..Len(params) |-> params[i].name]

\* the names of the required parameters of a list, in order
requiredNames(params) ==
    paramNames(SelectSeq(params, LAMBDA p : p.required))

seqToSet(seq) == {seq[i] : i \in 1..Len(seq)}

\* a generateInputSchema whose body branch starts from a fresh properties
\* object
generateInputSchemaBodyOnly(endpoint) ==
    LET rb == endpoint.requestBody
        flatten == rb.present /\ rb.schemaType = "object" /\ rb.schemaHasProps
        bodyKeys == IF flatten THEN seqToSet(rb.schemaProps)
                    ELSE IF rb.present THEN {s_body} ELSE {}
        bodyRequired ==
            IF flatten
            THEN SelectSeq(rb.schemaProps,
                           LAMBDA n : n \in seqToSet(rb.schemaRequired) /\ rb.required)
            ELSE IF rb.present /\ rb.required THEN <<s_body>> ELSE <<>>
        paramKeys == seqToSet(paramNames(endpoint.pathParams))
                     \cup seqToSet(paramNames(endpoint.queryParams))
    IN  [type |-> "object",
         properties |-> [k \in (IF rb.present THEN bodyKeys ELSE paramKeys) |-> "any"],
         required |-> requiredNames(endpoint.pathParams)
                      \o requiredNames(endpoint.queryParams) \o bodyRequired]

generateInputSchema(endpoint) ==
    LET rb == endpoint.requestBody
        flatten == rb.present /\ rb.schemaType = "object" /\ rb.schemaHasProps
        whole == rb.present /\ ~flatten
        bodyKeys == IF flatten THEN seqToSet(rb.schemaProps)
                    ELSE IF whole THEN {s_body} ELSE {}
        bodyRequired ==
            IF flatten
            THEN SelectSeq(rb.schemaProps,
                           LAMBDA n : n \in seqToSet(rb.schemaRequired) /\ rb.required)
            ELSE IF whole /\ rb.required THEN <<s_body>> ELSE <<>>
        pathKeys == seqToSet(paramNames(endpoint.pathParams))
        queryKeys == seqToSet(paramNames(endpoint.queryParams))
    IN  [type |-> "object",
         \* a later assignment to the same key overwrites the earlier one
         properties |->
            [k \in pathKeys \cup queryKeys \cup bodyKeys |->
                IF k \in bodyKeys THEN "body"
                ELSE IF k \in queryKeys THEN "query" ELSE "path"],
         required |-> requiredNames(endpoint.pathParams)
                      \o requiredNames(endpoint.queryParams) \o bodyRequired]

endpointToTool(endpoint) ==
    [name |-> generateToolName(endpoint),
     description |-> generateToolDescription(endpoint),
     inputSchema |-> generateInputSchema(endpoint),
     endpoint |-> endpoint]

\* a generateTools that hands the tools back in reverse
generateToolsReversed(spec) ==
    [i \in 1..Len(spec.endpoints) |->
        endpointToTool(spec.endpoints[Len(spec.endpoints) + 1 - i])]

generateTools(spec) ==
    [i \in 1..Len(spec.endpoints) |-> endpointToTool(spec.endpoints[i])]

----------------------------------------------------------------------------
(* Request construction (server/mcp-server.ts) *)

Unreserved(c) ==
    IsLower(c) \/ IsUpper(c) \/ IsDigit(c)
      \/ c \in {"-", "_", ".", "!", "~", "*", "'", "(", ")"}

\* the percent code of a reserved character of the model's alphabet
PercentCode(c) ==
    CASE c = " " -> <<"%","2","0">>
      [] c = "/" -> <<"%","2","F">>
      [] c = "{" -> <<"%","7","B">>
      [] c = "}" -> <<"%","7","D">>
      [] c = "?" -> <<"%","3","F">>
      [] c = "&" -> <<"%","2","6">>
      [] c = "=" -> <<"%","3","D">>
      [] c = "%" -> <<"%","2","5">>
      [] c = "+" -> <<"%","2","B">>
      [] c = "," -> <<"%","2","C">>
      [] c = ":" -> <<"%","3","A">>
      [] c = "[" -> <<"%","5","B">>
      [] c = "]" -> <<"%","5","D">>
      [] OTHER   -> <<"%","E","F","%","B","F","%","B","D">>

\* encodeURIComponent throws URIError on a lone surrogate
encodeURIComponentThrows(s) == \E i \in 1..Len(s) : s[i] = LoneSurrogate

RECURSIVE encodeURIComponent(_)
encodeURIComponent(s) ==
    IF Len(s) = 0 THEN <<>>
    ELSE (IF Unreserved(s[1]) THEN <<s[1]>> ELSE PercentCode(s[1]))
         \o encodeURIComponent(Tail(s))

\* URLSearchParams serialisation of one name or value: a space becomes "+",
\* "*", "-", ".", "_" and alphanumerics stay, a lone surrogate becomes U+FFFD
RECURSIVE formUrlEncode(_)
formUrlEncode(s) ==
    IF Len(s) = 0 THEN <<>>
    ELSE (IF IsLower(s[1]) \/ IsUpper(s[1]) \/ IsDigit(s[1])
              \/ s[1] \in {"*", "-", ".", "_"}
          THEN <<s[1]>>
          ELSE IF s[1] = " " THEN <<"+">>
          ELSE IF s[1] = "!" THEN <<"%","2","1">>
          ELSE IF s[1] = "~" THEN <<"%","7","E">>
          ELSE IF s[1] = "'" THEN <<"%","2","7">>
          ELSE IF s[1] = "(" THEN <<"%","2","8">>
          ELSE IF s[1] = ")" THEN <<"%","2","9">>
          ELSE PercentCode(s[1]))
         \o formUrlEncode(Tail(s))

\* String.prototype.replace(pattern, replacement) with a string pattern:
\* the first occurrence only
replaceFirst(s, pat, rep) ==
    IF includes(s, pat)
    THEN LET i == CHOOSE i \in 0..(Len(s) - Len(pat)) :
                     /\ SubSeq(s, i + 1, i + Len(pat)) = pat
                     /\ \A j \in 0..(i - 1) : SubSeq(s, j + 1, j + Len(pat)) # pat
         IN  SubSeq(s, 1, i) \o rep \o SubSeq(s, i + Len(pat) + 1, Len(s))
    ELSE s

\* the loop over endpoint.pathParams of buildUrl
RECURSIVE replacePathParams(_, _, _)
replacePathParams(url, params, args) ==
    IF Len(params) = 0 THEN url
    ELSE LET value == Get(args, params[1].name)
             next == IF value # Undefined
                     THEN replaceFirst(url, <<"{">> \o params[1].name \o <<"}">>,
                                       encodeURIComponent(String(value)))
                     ELSE url
         IN  replacePathParams(next, Tail(params), args)

\* URLSearchParams after the loop over endpoint.queryParams: set() keeps one
\* entry per name, at the place of its first insertion
RECURSIVE queryEntries(_, _, _)
queryEntries(done, params, args) ==
    IF Len(params) = 0 THEN done
    ELSE LET name == params[1].name
             value == Get(args, name)
             present == \E i \in 1..Len(done) : done[i][1] = name
             next == IF value = Undefined THEN done
                     ELSE IF present
                     THEN [i \in 1..Len(done) |->
                             IF done[i][1] = name THEN <<name, String(value)>>
                             ELSE done[i]]
                     ELSE Append(done, <<name, String(value)>>)
         IN  queryEntries(next, Tail(params), args)

\* URLSearchParams.prototype.toString
queryToString(entries) ==
    joinStrings([i \in 1..Len(entries) |->
                    formUrlEncode(entries[i][1]) \o <<"=">> \o formUrlEncode(entries[i][2])],
                <<"&">>)

\* buildUrl throws when encodeURIComponent does
buildUrlThrows(endpoint, args) ==
    \E i \in 1..Len(endpoint.pathParams) :
        LET value == Get(args, endpoint.pathParams[i].name)
        IN  value # Undefined /\ encodeURIComponentThrows(String(value))

\* a buildUrl without the test of queryString: "?" is always appended
buildUrlAlwaysQuery(baseUrl, endpoint, args) ==
    replacePathParams(baseUrl \o endpoint.path, endpoint.pathParams, args)
    \o <<"?">> \o queryToString(queryEntries(<<>>, endpoint.queryParams, args))

buildUrl(baseUrl, endpoint, args) ==
    LET url == replacePathParams(baseUrl \o endpoint.path, endpoint.pathParams, args)
        queryString == queryToString(queryEntries(<<>>, endpoint.queryParams, args))
    IN  IF Len(queryString) > 0 THEN url \o <<"?">> \o queryString ELSE url

\* a residual collection that leaves out the header parameters as well
residualArgsWithoutHeaders(endpoint, args, except) ==
    LET declared == seqToSet(paramNames(endpoint.pathParams))
                    \cup seqToSet(paramNames(endpoint.queryParams))
                    \cup seqToSet(paramNames(endpoint.headerParams))
    IN  [k \in {k \in DOMAIN args : k \notin declared /\ k \notin except} |-> args[k]]

\* the entries of args kept by residual collection: not a path parameter, not
\* a query parameter, and not one of the keys in except
residualArgs(endpoint, args, except) ==
    LET pathParamNames == seqToSet(paramNames(endpoint.pathParams))
        queryParamNames == seqToSet(paramNames(endpoint.queryParams))
        keys == {k \in DOMAIN args :
                    k \notin pathParamNames /\ k \notin queryParamNames
                    /\ k \notin except}
    IN  [k \in keys |-> args[k]]

\* extractBody (Full mode)
extractBody(endpoint, args) ==
    IF ~endpoint.requestBody.present THEN Undefined
    ELSE IF Get(args, s_body) # Undefined THEN Get(args, s_body)
    ELSE LET bodyArgs == residualArgs(endpoint, args, {})
         IN  IF DOMAIN bodyArgs # {} THEN Obj(bodyArgs) ELSE Undefined

\* the body of executeApiCall (Search mode)
searchBody(endpoint, args) ==
    LET bodyArgs == residualArgs(endpoint, args, {s_endpoint_id})
    IN  IF DOMAIN bodyArgs # {} THEN Obj(bodyArgs) ELSE Undefined

\* headers[name] = value on a plain object: an existing key keeps its place
setEntry(entries, name, value) ==
    IF \E i \in 1..Len(entries) : entries[i][1] = name
    THEN [i \in 1..Len(entries) |->
            IF entries[i][1] = name THEN <<name, value>> ELSE entries[i]]
    ELSE Append(entries, <<name, value>>)

\* the loop over endpoint.headerParams (Full mode)
RECURSIVE addHeaderParams(_, _, _)
addHeaderParams(headers, params, args) ==
    IF Len(params) = 0 THEN headers
    ELSE LET value == Get(args, params[1].name)
         IN  addHeaderParams(
                IF value # Undefined
                THEN setEntry(headers, params[1].name, String(value))
                ELSE headers,
                Tail(params), args)

\* body ? JSON.stringify(body) : undefined
serializeBody(body) ==
    IF Truthy(body) THEN [present |-> TRUE, json |-> body]
    ELSE [present |-> FALSE, json |-> Undefined]

\* the RequestInit executeApiCall hands to authenticatedFetch (Full mode)
fullRequestInit(endpoint, args) ==
    LET body == extractBody(endpoint, args)
        headers0 == IF Len(endpoint.requestBody.contentType) > 0
                    THEN <<<<s_ContentType, endpoint.requestBody.contentType>>>>
                    ELSE <<>>
    IN  [method |-> toUpperCase(endpoint.method),
         headers |-> addHeaderParams(headers0, endpoint.headerParams, args),
         body |-> serializeBody(body)]

\* the RequestInit executeApiCall hands to authenticatedFetch (Search mode)
searchRequestInit(endpoint, args) ==
    LET body == searchBody(endpoint, args)
        headers == IF Len(endpoint.requestBody.contentType) > 0
                   THEN <<<<s_ContentType, endpoint.requestBody.contentType>>>>
                   ELSE IF Truthy(body) THEN <<<<s_ContentType, s_json>>>>
                   ELSE <<>>
    IN  [method |-> toUpperCase(endpoint.method),
         headers |-> headers,
         body |-> serializeBody(body)]

----------------------------------------------------------------------------
(* Authentication (auth/handlers.ts) *)

\* an absent field of AuthConfig is the empty text: both are falsy
AuthConfig(type, token, headerName, username, password) ==
    [type |-> type, token |-> token, headerName |-> headerName,
     username |-> username, password |-> password]

s_XAPIKey == <<"X","-","A","P","I","-","K","e","y">>

s_Basic == <<"B","a","s","i","c"," ">>

\* Buffer.from(text).toString('base64'), kept as the marked text
base64(text) == <<"b","6","4","(">> \o text \o <<")">>

\* a getAuthHeaders whose basic case asks for the username only
getAuthHeadersBasicUserOnly(auth) ==
    CASE auth.type = "bearer" /\ Len(auth.token) > 0 ->
            <<<<s_Authorization, s_Bearer \o auth.token>>>>
      [] auth.type = "apikey" /\ Len(auth.token) > 0 ->
            <<<<IF Len(auth.headerName) > 0 THEN auth.headerName ELSE s_XAPIKey,
                auth.token>>>>
      [] auth.type = "basic" /\ Len(auth.username) > 0 ->
            <<<<s_Authorization,
                s_Basic \o base64(auth.username \o <<":">> \o auth.password)>>>>
      [] auth.type = "oauth2" /\ Len(auth.token) > 0 ->
            <<<<s_Authorization, s_Bearer \o auth.token>>>>
      [] OTHER -> <<>>

\* getAuthHeaders: the entries of the returned object, in insertion order;
\* an absent config has the type "undefined"
getAuthHeaders(auth) ==
    CASE auth.type = "bearer" /\ Len(auth.token) > 0 ->
            <<<<s_Authorization, s_Bearer \o auth.token>>>>
      [] auth.type = "apikey" /\ Len(auth.token) > 0 ->
            <<<<IF Len(auth.headerName) > 0 THEN auth.headerName ELSE s_XAPIKey,
                auth.token>>>>
      [] auth.type = "basic" /\ Len(auth.username) > 0 /\ Len(auth.password) > 0 ->
            <<<<s_Authorization,
                s_Basic \o base64(auth.username \o <<":">> \o auth.password)>>>>
      [] auth.type = "oauth2" /\ Len(auth.token) > 0 ->
            <<<<s_Authorization, s_Bearer \o auth.token>>>>
      [] OTHER -> <<>>

\* new Headers(init.headers): names are lowercased, the values given for one
\* name are combined with ", " in insertion order
newHeaders(entries) ==
    LET names == {toLowerCase(entries[i][1]) : i \in 1..Len(entries)}
        valuesOf(n) ==
            LET mine == SelectSeq(entries, LAMBDA e : toLowerCase(e[1]) = n)
            IN  [i \in 1..Len(mine) |-> mine[i][2]]
    IN  [n \in names |-> joinStrings(valuesOf(n), <<",", " ">>)]

\* Headers.prototype.append in the place of set
headersAppend(headers, name, value) ==
    [n \in DOMAIN headers \cup {toLowerCase(name)} |->
        IF n # toLowerCase(name) THEN headers[n]
        ELSE IF n \in DOMAIN headers THEN headers[n] \o <<",", " ">> \o value
        ELSE value]

\* Headers.prototype.set
headersSet(headers, name, value) ==
    [n \in DOMAIN headers \cup {toLowerCase(name)} |->
        IF n = toLowerCase(name) THEN value ELSE headers[n]]

\* the loop over Object.entries(authHeaders)
RECURSIVE setAll(_, _)
setAll(headers, entries) ==
    IF Len(entries) = 0 THEN headers
    ELSE setAll(headersSet(headers, entries[1][1], entries[1][2]), Tail(entries))

\* a wrapper whose Headers object is shared by the calls in flight: the
\* headers set for another invocation that still waits are sent as well
authenticatedFetchSharedHeaders(authHeaders, url, init) ==
    LET own == setAll(newHeaders(init.headers), authHeaders)
        waiting == {s \in DOMAIN inflight : inflight[s] # [pc |-> "idle"]}
        other == IF waiting = {} THEN own
                 ELSE inflight[CHOOSE s \in waiting : TRUE].sent[1].headers
    IN  [url |-> url, method |-> init.method,
         headers |-> [n \in DOMAIN own \cup DOMAIN other |->
                         IF n \in DOMAIN own THEN own[n] ELSE other[n]],
         body |-> init.body]

\* the request the function made by createAuthenticatedFetch hands to fetch
authenticatedFetch(authHeaders, url, init) ==
    [url |-> url, method |-> init.method,
     headers |-> setAll(newHeaders(init.headers), authHeaders),
     body |-> init.body]

\* getOAuth2Token (auth carries type, tokenUrl, clientId and clientSecret; an
\* absent field is the empty text), with the outcome of the token exchange:
\* the requests handed to fetch and the value the promise resolves to. Every
\* failure after the first test happens inside the try block: fetch rejects,
\* the status is not a success, response.json() rejects, or the JSON value
\* is null and reading its access_token throws
getOAuth2Token(auth, exchange) ==
    IF \/ auth.type # "oauth2" \/ Len(auth.tokenUrl) = 0
       \/ Len(auth.clientId) = 0 \/ Len(auth.clientSecret) = 0
    THEN [sent |-> <<>>, threw |-> FALSE, value |-> Null]
    ELSE [sent |-> <<[url |-> auth.tokenUrl,
                      method |-> <<"P","O","S","T">>,
                      headers |-> <<<<s_ContentType, <<"a","p","p","l","i","c","a","t","i","o","n","/","x","-","w","w","w","-","f","o","r","m","-","u","r","l","e","n","c","o","d","e","d">>>>>>,
                      body |-> <<<<<<"g","r","a","n","t","_","t","y","p","e">>, <<"c","l","i","e","n","t","_","c","r","e","d","e","n","t","i","a","l","s">>>>,
                                 <<<<"c","l","i","e","n","t","_","i","d">>, auth.clientId>>,
                                 <<<<"c","l","i","e","n","t","_","s","e","c","r","e","t">>, auth.clientSecret>>>>]>>,
          threw |-> FALSE,
          value |-> IF exchange.kind = "reject" THEN Null
                    ELSE IF ~exchange.ok THEN Null
                    ELSE IF ~exchange.validJson THEN Null
                    ELSE IF exchange.data.t = "null" THEN Null
                    ELSE IF exchange.data.t = "object"
                         THEN Get(exchange.data.v, <<"a","c","c","e","s","s","_","t","o","k","e","n">>)
                    ELSE Undefined]

\* fetch rejects with a TypeError, before anything is sent, a GET or HEAD
\* request that has a body
fetchRejects(request) ==
    request.body.present /\ request.method \in {<<"G","E","T">>, <<"H","E","A","D">>}

----------------------------------------------------------------------------
(* Search ranking (server/mcp-server.ts, searchEndpoints) *)

DefaultLimit == 10

IsSpace(c) == c \in {" ", "\t", "\n"}

\* String.prototype.split(/\s+/): the text between the whitespace runs
RECURSIVE splitWhitespace(_, _, _)
splitWhitespace(s, i, cur) ==
    IF i > Len(s) THEN <<cur>>
    ELSE IF IsSpace(s[i])
    THEN LET rest == {j \in (i + 1)..Len(s) : ~IsSpace(s[j])}
             j == IF rest = {} THEN Len(s) + 1
                  ELSE CHOOSE j \in rest : \A k \in rest : j <= k
         IN  <<cur>> \o splitWhitespace(s, j, <<>>)
    ELSE splitWhitespace(s, i + 1, Append(cur, s[i]))

DigitSeq == <<"0","1","2","3","4","5","6","7","8","9">>

RECURSIVE numeralValue(_)
numeralValue(digits) ==
    IF Len(digits) = 0 THEN 0
    ELSE numeralValue(SubSeq(digits, 1, Len(digits) - 1)) * 10
         + (CHOOSE d \in 0..9 : DigitSeq[d + 1] = digits[Len(digits)])

IsNumeral(s) == Len(s) > 0 /\ \A i \in 1..Len(s) : IsDigit(s[i])

\* ToIntegerOrInfinity(value) as Array.prototype.slice applies it
toInteger(val) ==
    IF val.t \in {"number", "string"} /\ IsNumeral(val.v) THEN numeralValue(val.v)
    ELSE IF val.t \in {"number", "string"} /\ Len(val.v) > 1 /\ val.v[1] = "-"
            /\ IsNumeral(Tail(val.v))
    THEN 0 - numeralValue(Tail(val.v))
    ELSE 0

\* Array.prototype.slice(0, end)
sliceTo(seq, end) ==
    LET stop == IF end < 0 THEN (IF Len(seq) + end < 0 THEN 0 ELSE Len(seq) + end)
                ELSE IF end > Len(seq) THEN Len(seq) ELSE end
    IN  SubSeq(seq, 1, stop)

\* options.tags (or options.methods) passes "x && x.length > 0"
filterApplies(val) ==
    (val.t = "array" /\ Len(val.v) > 0) \/ (val.t = "string" /\ Len(val.v) > 0)

\* x.map((t) => t.toLowerCase()) throws a TypeError: x is a string (no map),
\* or an element has no toLowerCase
lowerAllThrows(val) ==
    val.t # "array" \/ \E i \in 1..Len(val.v) : val.v[i].t # "string"

lowerAll(val) == {toLowerCase(val.v[i].v) : i \in 1..Len(val.v)}

\* searchEndpoints throws a TypeError
searchEndpointsThrows(query, tags, methods) ==
    \/ query.t # "string"
    \/ filterApplies(tags) /\ lowerAllThrows(tags)
    \/ filterApplies(methods) /\ lowerAllThrows(methods)

\* the fields of one tool the query is matched against, lowercased
searchFields(tool) ==
    LET fields == <<tool.name, tool.description, tool.endpoint.path,
                    tool.endpoint.summary, tool.endpoint.operationId>>
                  \o tool.endpoint.tags
    IN  [i \in 1..Len(fields) |-> toLowerCase(fields[i])]

fieldScore(field, queryLower) ==
    LET words == splitWhitespace(queryLower, 1, <<>>)
    IN  (IF includes(field, queryLower) THEN 10 ELSE 0)
        + 5 * Cardinality({i \in 1..Len(words) : includes(field, words[i])})

RECURSIVE sumScores(_, _)
sumScores(fields, queryLower) ==
    IF Len(fields) = 0 THEN 0
    ELSE fieldScore(fields[1], queryLower) + sumScores(Tail(fields), queryLower)

toolScore(tool, queryLower) == sumScores(searchFields(tool), queryLower)

\* Array.prototype.sort((a, b) => b.score - a.score) is stable: the indices
\* of idx by descending score, equal scores in index order
RECURSIVE sortByScore(_, _)
sortByScore(idx, score) ==
    IF idx = {} THEN <<>>
    ELSE LET first == CHOOSE i \in idx :
                        \A j \in idx : score[j] < score[i]
                                       \/ (score[j] = score[i] /\ i <= j)
         IN  <<first>> \o sortByScore(idx \ {first}, score)

\* a searchEndpoints that skips the method filter
searchEndpointsNoMethodFilter(tools, query, tags, methods, limitArg) ==
    LET queryLower == toLowerCase(query.v)
        limit == IF Truthy(limitArg) THEN toInteger(limitArg) ELSE DefaultLimit
        byTags == IF filterApplies(tags)
                  THEN {i \in 1..Len(tools) :
                          \E k \in 1..Len(tools[i].endpoint.tags) :
                             toLowerCase(tools[i].endpoint.tags[k]) \in lowerAll(tags)}
                  ELSE 1..Len(tools)
        filtered == byTags
        score == [i \in filtered |-> toolScore(tools[i], queryLower)]
        ranked == sortByScore({i \in filtered : score[i] > 0}, score)
    IN  sliceTo(ranked, limit)

\* searchEndpoints, when it does not throw: the indices in tools of the
\* tools it returns, in order
searchEndpoints(tools, query, tags, methods, limitArg) ==
    LET queryLower == toLowerCase(query.v)
        limit == IF Truthy(limitArg) THEN toInteger(limitArg) ELSE DefaultLimit
        byTags == IF filterApplies(tags)
                  THEN {i \in 1..Len(tools) :
                          \E k \in 1..Len(tools[i].endpoint.tags) :
                             toLowerCase(tools[i].endpoint.tags[k]) \in lowerAll(tags)}
                  ELSE 1..Len(tools)
        filtered == IF filterApplies(methods)
                    THEN {i \in byTags :
                            toLowerCase(tools[i].endpoint.method) \in lowerAll(methods)}
                    ELSE byTags
        score == [i \in filtered |-> toolScore(tools[i], queryLower)]
        ranked == sortByScore({i \in filtered : score[i] > 0}, score)
    IN  sliceTo(ranked, limit)

----------------------------------------------------------------------------
(* Normalizer (parser/swagger.ts): from a dereferenced document to endpoints *)

\* a parameter object of the document: its name, its location ("in"), its
\* required flag and, for a Swagger 2 body parameter, its schema
RawParameter(name, in, required, schema) ==
    [name |-> name, in |-> in, required |-> required, schema |-> schema]

\* an operation object; an absent operationId, summary or description is the
\* empty text, an absent requestBody is NoRequestBody
Operation(operationId, parameters, requestBody, tags) ==
    [operationId |-> operationId, summary |-> <<>>, description |-> <<>>,
     parameters |-> parameters, requestBody |-> requestBody, tags |-> tags]

\* a path item: its key in paths, its own parameters, and its operations by
\* method
PathItem(path, parameters, operations) ==
    [path |-> path, parameters |-> parameters, operations |-> operations]

\* the methods parseSpec looks for in a path item, in its order
HttpMethods ==
    <<s_get, s_post, <<"p","u","t">>, <<"p","a","t","c","h">>,
      <<"d","e","l","e","t","e">>, <<"h","e","a","d">>,
      <<"o","p","t","i","o","n","s">>>>

\* .replace(/\{([^}]+)\}/g, (_, param) => param.charAt(0).toUpperCase() + param.slice(1))
RECURSIVE replacePlaceholders(_)
replacePlaceholders(s) ==
    IF Len(s) = 0 THEN <<>>
    ELSE LET closing == {j \in 2..Len(s) : s[j] = "}"}
             j == IF closing = {} THEN 0
                  ELSE CHOOSE j \in closing : \A k \in closing : j <= k
         IN  IF s[1] = "{" /\ j > 2
             THEN <<toUpperCaseChar(s[2])>> \o SubSeq(s, 3, j - 1)
                  \o replacePlaceholders(SubSeq(s, j + 1, Len(s)))
             ELSE <<s[1]>> \o replacePlaceholders(Tail(s))

\* generateOperationId; after the second replace the only separators are
\* spaces, and filter(Boolean) drops the empty pieces of split(' ')
generateOperationId(method, path) ==
    LET replaced == replacePlaceholders(path)
        spaced == [i \in 1..Len(replaced) |->
                    IF IsLower(replaced[i]) \/ IsUpper(replaced[i]) \/ IsDigit(replaced[i])
                    THEN replaced[i] ELSE " "]
        words == SelectSeq(splitWhitespace(spaced, 1, <<>>), LAMBDA w : Len(w) > 0)
        cased == [i \in 1..Len(words) |->
                    IF i = 1 THEN toLowerCase(words[i])
                    ELSE <<toUpperCaseChar(words[i][1])>> \o toLowerCase(Tail(words[i]))]
        cleanPath == joinStrings(cased, <<>>)
    IN  toLowerCase(method)
        \o (IF Len(cleanPath) = 0 THEN <<>>
            ELSE <<toUpperCaseChar(cleanPath[1])>> \o Tail(cleanPath))

\* a parseOperation in which an operation-level parameter replaces the
\* path-level parameter of the same name and location
parseOperationOverriding(method, path, operation, pathParams, isV3) ==
    LET kept == SelectSeq(pathParams, LAMBDA p :
                    ~\E k \in 1..Len(operation.parameters) :
                        /\ operation.parameters[k].name = p.name
                        /\ operation.parameters[k].in = p.in)
        allParams == kept \o operation.parameters
        located(in) ==
            LET found == SelectSeq(allParams, LAMBDA p : p.in = in)
            IN  [i \in 1..Len(found) |-> ParameterInfo(found[i].name, found[i].required)]
        body == SelectSeq(allParams, LAMBDA p : p.in = "body")
        requestBody ==
            IF isV3
            THEN IF operation.requestBody.present
                 THEN [operation.requestBody EXCEPT
                          !.contentType = IF Len(@) > 0 THEN @ ELSE s_json]
                 ELSE NoRequestBody
            ELSE IF Len(body) > 0
                 THEN [body[1].schema EXCEPT !.present = TRUE,
                          !.required = body[1].required, !.contentType = s_json]
                 ELSE NoRequestBody
    IN  [operationId |-> IF Len(operation.operationId) > 0 THEN operation.operationId
                         ELSE generateOperationId(method, path),
         method |-> method,
         path |-> path,
         summary |-> operation.summary,
         description |-> operation.description,
         pathParams |-> located("path"),
         queryParams |-> located("query"),
         headerParams |-> located("header"),
         requestBody |-> requestBody,
         tags |-> operation.tags]

\* parseOperation, with parseParameter, parseRequestBody and parseBodyParam
parseOperation(method, path, operation, pathParams, isV3) ==
    LET allParams == pathParams \o operation.parameters
        located(in) ==
            LET found == SelectSeq(allParams, LAMBDA p : p.in = in)
            IN  [i \in 1..Len(found) |-> ParameterInfo(found[i].name, found[i].required)]
        body == SelectSeq(allParams, LAMBDA p : p.in = "body")
        requestBody ==
            IF isV3
            THEN IF operation.requestBody.present
                 THEN [operation.requestBody EXCEPT
                          !.contentType = IF Len(@) > 0 THEN @ ELSE s_json]
                 ELSE NoRequestBody
            ELSE IF Len(body) > 0
                 THEN [body[1].schema EXCEPT !.present = TRUE,
                          !.required = body[1].required, !.contentType = s_json]
                 ELSE NoRequestBody
    IN  [operationId |-> IF Len(operation.operationId) > 0 THEN operation.operationId
                         ELSE generateOperationId(method, path),
         method |-> method,
         path |-> path,
         summary |-> operation.summary,
         description |-> operation.description,
         pathParams |-> located("path"),
         queryParams |-> located("query"),
         headerParams |-> located("header"),
         requestBody |-> requestBody,
         tags |-> operation.tags]

\* the loop of parseSpec over Object.entries(api.paths) and over the methods
RECURSIVE parsePaths(_, _)
parsePaths(paths, isV3) ==
    IF Len(paths) = 0 THEN <<>>
    ELSE LET item == paths[1]
             methods == SelectSeq(HttpMethods, LAMBDA m : m \in DOMAIN item.operations)
         IN  [i \in 1..Len(methods) |->
                parseOperation(methods[i], item.path, item.operations[methods[i]],
                               item.parameters, isV3)]
             \o parsePaths(Tail(paths), isV3)

----------------------------------------------------------------------------
(* What a handler hands back, and what the network hands to a handler *)

\* a thrown Error object
Error(name, message, detail) == [name |-> name, message |-> message, detail |-> detail]

\* the handler returned { content: [{ type: 'text', text }], isError? }
Result(text, isError) == [kind |-> "result", text |-> text, isError |-> isError]

\* the handler threw: the protocol runtime answers with a protocol-level error
Thrown(error) == [kind |-> "thrown", error |-> error]

\* `Error: ${message}` of the catch block
ErrorText(error) == [tpl |-> "Error: ${message}", message |-> error.message,
                     detail |-> error.detail]

s_text == <<"t","e","x","t","/","p","l","a","i","n">>

s_jsonUtf8 == s_json \o <<";"," ","c","h","a","r","s","e","t","=","u","t","f","-","8">>

\* what fetch settles with: a rejection, or a response of some status and
\* content type whose body is or is not JSON text
NetworkOutcomes ==
    {[kind |-> "reject", status |-> 0, contentType |-> <<>>, validJson |-> FALSE],
     [kind |-> "response", status |-> 200, contentType |-> s_jsonUtf8, validJson |-> TRUE],
     [kind |-> "response", status |-> 200, contentType |-> s_jsonUtf8, validJson |-> FALSE],
     [kind |-> "response", status |-> 200, contentType |-> s_text, validJson |-> FALSE],
     [kind |-> "response", status |-> 404, contentType |-> s_jsonUtf8, validJson |-> TRUE],
     [kind |-> "response", status |-> 404, contentType |-> <<>>, validJson |-> FALSE]}

\* the lines of executeApiCall after the await of authenticatedFetch
\* (the same in both modes): the value returned, or the error thrown
responseValue(outcome) ==
    IF outcome.kind = "reject"
    THEN [thrown |-> TRUE, error |-> Error("TypeError", "fetch failed", <<>>),
          type |-> "", status |-> 0]
    ELSE IF includes(outcome.contentType, s_json)
    THEN IF outcome.validJson
         THEN [thrown |-> FALSE, error |-> Error("", "", <<>>),
               type |-> "object", status |-> outcome.status]
         ELSE [thrown |-> TRUE,
               error |-> Error("SyntaxError", "Unexpected token in JSON", <<>>),
               type |-> "", status |-> 0]
    ELSE [thrown |-> FALSE, error |-> Error("", "", <<>>),
          type |-> "string", status |-> outcome.status]

\* a handler without the catch block: the error of executeApiCall propagates
settledResultRethrows(outcome) ==
    LET result == responseValue(outcome)
    IN  IF result.thrown THEN Thrown(result.error)
        ELSE Result([tpl |-> IF result.type = "string" THEN "result"
                             ELSE "JSON.stringify(result, null, 2)",
                     status |-> result.status], FALSE)

\* the try/catch of a call handler around executeApiCall, once fetch has
\* settled (the same in both modes)
settledResult(outcome) ==
    LET result == responseValue(outcome)
    IN  IF result.thrown THEN Result(ErrorText(result.error), TRUE)
        ELSE Result([tpl |-> IF result.type = "string" THEN "result"
                             ELSE "JSON.stringify(result, null, 2)",
                     status |-> result.status], FALSE)

\* what a call handler does before it first waits: it returns, it throws, or
\* it has called fetch with a request and waits for it
\* sent: the requests that went out on the network so far
Returns(response) == [kind |-> "done", response |-> response, tool |-> 0,
                      sent |-> <<>>]

\* a fetch that is tried a second time
AwaitsRetry(tool, request) ==
    [kind |-> "await", response |-> Thrown(Error("", "", <<>>)),
     tool |-> tool, sent |-> <<request, request>>]

\* await authenticatedFetch(url, init): fetch was called once with request
Awaits(tool, request) == [kind |-> "await", response |-> Thrown(Error("", "", <<>>)),
                          tool |-> tool, sent |-> <<request>>]

\* tools.find((t) => t.name === name): the index of the tool, 0 when none
\* a lookup that returns the last tool of the name
findLastTool(tools, name) ==
    IF \E i \in 1..Len(tools) : tools[i].name = name
    THEN CHOOSE i \in 1..Len(tools) :
            /\ tools[i].name = name
            /\ \A j \in (i + 1)..Len(tools) : tools[j].name # name
    ELSE 0

findTool(tools, name) ==
    IF \E i \in 1..Len(tools) : tools[i].name = name
    THEN CHOOSE i \in 1..Len(tools) :
            /\ tools[i].name = name
            /\ \A j \in 1..(i - 1) : tools[j].name # name
    ELSE 0

\* the try block up to the await: executeApiCall builds the request and calls
\* authenticatedFetch; an error thrown on the way is caught
tryExecute(tool, request, buildThrows) ==
    IF buildThrows
    THEN [Returns(Result(ErrorText(Error("URIError", "URI malformed", <<>>)), TRUE))
            EXCEPT !.tool = tool]
    ELSE IF fetchRejects(request)
    THEN [Returns(Result(ErrorText(Error("TypeError",
                    "Request with GET/HEAD method cannot have body", <<>>)), TRUE))
            EXCEPT !.tool = tool]
    ELSE Awaits(tool, request)

----------------------------------------------------------------------------
(* Full mode (createSpeckyServer) *)

\* a listing that drops a tool once an invocation has failed
fullListToolsAfterFailure(tools) ==
    LET shown == IF errors /\ Len(tools) > 0 THEN Tail(tools) ELSE tools
    IN  [i \in 1..Len(shown) |->
            [name |-> shown[i].name, description |-> shown[i].description,
             inputSchema |-> shown[i].inputSchema]]

\* the ListTools handler
fullListTools(tools) ==
    [i \in 1..Len(tools) |->
        [name |-> tools[i].name, description |-> tools[i].description,
         inputSchema |-> tools[i].inputSchema]]

\* the CallTool handler, up to its first wait
fullCallTool(tools, baseUrl, authHeaders, toolName, args) ==
    LET idx == findTool(tools, toolName)
    IN  IF idx = 0
        THEN Returns(Thrown(Error("Error", "Unknown tool: ${toolName}", toolName)))
        ELSE LET endpoint == tools[idx].endpoint
             IN  tryExecute(idx,
                            authenticatedFetch(authHeaders,
                                               buildUrl(baseUrl, endpoint, args),
                                               fullRequestInit(endpoint, args)),
                            buildUrlThrows(endpoint, args))

----------------------------------------------------------------------------
(* Search mode (createSearchModeServer) *)

\* a listing that also carries one tool per endpoint
metaToolsOfWithEndpoints(spec, allTools) ==
    <<[name |-> s_search_endpoints, title |-> spec.title, required |-> <<s_query>>],
      [name |-> s_call_endpoint, title |-> <<>>, required |-> <<s_endpoint_id>>]>>
    \o [i \in 1..Len(allTools) |->
            [name |-> allTools[i].name, title |-> <<>>, required |-> <<>>]]

\* the two meta-tools: name and the required arguments of the input schema
metaToolsOf(spec, allTools) ==
    <<[name |-> s_search_endpoints, title |-> spec.title, required |-> <<s_query>>],
      [name |-> s_call_endpoint, title |-> <<>>, required |-> <<s_endpoint_id>>]>>

\* the ListTools handler
searchListTools(metaTools) == metaTools

toolNames(tools, idx) == [i \in 1..Len(idx) |-> tools[idx[i]].name]

\* the search_endpoints branch of the CallTool handler
searchBranch(allTools, args) ==
    LET query == Get(args, s_query)
        tags == Get(args, s_tags)
        methods == Get(args, s_methods)
        limit == Get(args, s_limit)
    IN  IF searchEndpointsThrows(query, tags, methods)
        THEN Returns(Thrown(Error("TypeError", "is not a function", <<>>)))
        ELSE LET results == searchEndpoints(allTools, query, tags, methods, limit)
             IN  IF Len(results) = 0
                 THEN Returns(Result([tpl |-> "No endpoints found matching",
                                      query |-> query.v], FALSE))
                 ELSE Returns(Result([tpl |-> "Found ${results.length} matching endpoint(s)",
                                      ids |-> toolNames(allTools, results)], FALSE))

\* t.name.includes(endpointId) || endpointId.includes(t.name), for an
\* endpointId on which includes can be called
similarTo(name, endpointId) ==
    \/ includes(name, String(endpointId))
    \/ endpointId.t = "string" /\ includes(endpointId.v, name)
    \/ endpointId.t = "array" /\ \E i \in 1..Len(endpointId.v) : endpointId.v[i] = Str(name)

\* the filter callback throws a TypeError: the first test fails for some tool
\* and endpointId is a value that has no includes method
similarThrows(allTools, endpointId) ==
    /\ endpointId.t \notin {"string", "array"}
    /\ \E i \in 1..Len(allTools) : ~includes(allTools[i].name, String(endpointId))

\* the call_endpoint branch of the CallTool handler, up to its first wait
callBranch(allTools, baseUrl, authHeaders, args) ==
    LET endpointId == Get(args, s_endpoint_id)
        idx == IF endpointId.t = "string" THEN findTool(allTools, endpointId.v) ELSE 0
    IN  IF ~Truthy(endpointId)
        THEN Returns(Result([tpl |-> "Error: endpoint_id is required"], TRUE))
        ELSE IF idx = 0
        THEN IF similarThrows(allTools, endpointId)
             THEN Returns(Thrown(Error("TypeError",
                            "endpointId.includes is not a function", <<>>)))
             ELSE LET similar == SelectSeq(allTools,
                                     LAMBDA t : similarTo(t.name, endpointId))
                  IN  IF Len(similar) > 0
                      THEN Returns(Result(
                              [tpl |-> "Endpoint not found. Did you mean",
                               names |-> [i \in 1..Len(similar) |-> similar[i].name]],
                              TRUE))
                      ELSE Returns(Result(
                              [tpl |-> "Endpoint not found. Use search_endpoints"],
                              TRUE))
        ELSE LET endpoint == allTools[idx].endpoint
             IN  tryExecute(idx,
                            authenticatedFetch(authHeaders,
                                               buildUrl(baseUrl, endpoint, args),
                                               searchRequestInit(endpoint, args)),
                            buildUrlThrows(endpoint, args))

\* the CallTool handler, up to its first wait
searchCallTool(allTools, baseUrl, authHeaders, toolName, args) ==
    IF toolName = s_search_endpoints THEN searchBranch(allTools, args)
    ELSE IF toolName = s_call_endpoint
    THEN callBranch(allTools, baseUrl, authHeaders, args)
    ELSE Returns(Result([tpl |-> "Unknown tool: ${toolName}", name |-> toolName], TRUE))

----------------------------------------------------------------------------
(* The CLI action (cli/index.ts): filters, then creates the server *)

\* String.prototype.split(',')
RECURSIVE splitComma(_, _, _)
splitComma(s, i, cur) ==
    IF i > Len(s) THEN <<cur>>
    ELSE IF s[i] = "," THEN <<cur>> \o splitComma(s, i + 1, <<>>)
    ELSE splitComma(s, i + 1, Append(cur, s[i]))

\* String.prototype.trim
RECURSIVE trim(_)
trim(s) ==
    IF Len(s) = 0 THEN s
    ELSE IF IsSpace(s[1]) THEN trim(Tail(s))
    ELSE IF IsSpace(s[Len(s)]) THEN trim(SubSeq(s, 1, Len(s) - 1))
    ELSE s

\* a pattern of --include or --exclude: a literal, anchored at the start of
\* the path ("^/pet") or not ("/x"); an absent option has present = FALSE
NoPattern == [present |-> FALSE, anchored |-> FALSE, literal |-> <<>>]

Pattern(anchored, literal) ==
    [present |-> TRUE, anchored |-> anchored, literal |-> literal]

\* RegExp.prototype.test for such a pattern
test(pattern, s) ==
    IF pattern.anchored THEN startsWith(s, pattern.literal)
    ELSE includes(s, pattern.literal)

\* options.tags is the text given to --tags, empty when the option is absent
CliOptions(tags, include, exclude) ==
    [tags |-> tags, include |-> include, exclude |-> exclude]

NoCliOptions == CliOptions(<<>>, NoPattern, NoPattern)

\* "Apply filters": filteredEndpoints
filterEndpoints(endpoints, options) ==
    LET parts == splitComma(options.tags, 1, <<>>)
        wanted == {toLowerCase(trim(parts[i])) : i \in 1..Len(parts)}
        byTags == IF Len(options.tags) > 0
                  THEN SelectSeq(endpoints, LAMBDA ep :
                          \E k \in 1..Len(ep.tags) : toLowerCase(ep.tags[k]) \in wanted)
                  ELSE endpoints
        byInclude == IF options.include.present
                     THEN SelectSeq(byTags, LAMBDA ep : test(options.include, ep.path))
                     ELSE byTags
    IN  IF options.exclude.present
        THEN SelectSeq(byInclude, LAMBDA ep : ~test(options.exclude, ep.path))
        ELSE byInclude

\* the config object the CLI action hands to the server it creates
cliConfig(specPath, auth) == [spec |-> specPath, auth |-> auth, baseUrl |-> <<>>]

\* a server that, for oauth2 without a token, exchanges the client
\* credentials for a token when it is created
createServerWithExchange(cfg) ==
    LET spec == parseSpec(cfg.spec)
        generated == generateTools(spec)
    IN  [tools |-> generated,
         metaTools |-> metaToolsOf(spec, generated),
         baseUrl |-> IF Len(cfg.baseUrl) > 0 THEN cfg.baseUrl ELSE spec.baseUrl,
         authHeaders |-> IF cfg.auth.type = "oauth2" /\ Len(cfg.auth.token) = 0
                         THEN <<<<s_Authorization, s_Bearer \o <<"x">>>>>>
                         ELSE getAuthHeaders(cfg.auth)]

\* createSpeckyServer / createSearchModeServer up to the handlers: the spec
\* is parsed from config.spec and the tools are generated from it
createServer(cfg) ==
    LET spec == parseSpec(cfg.spec)
        generated == generateTools(spec)
    IN  [tools |-> generated,
         metaTools |-> metaToolsOf(spec, generated),
         baseUrl |-> IF Len(cfg.baseUrl) > 0 THEN cfg.baseUrl ELSE spec.baseUrl,
         authHeaders |-> getAuthHeaders(cfg.auth)]

----------------------------------------------------------------------------
(* Requests of the client *)

Slots == 1..MaxInFlight

Idle == [pc |-> "idle"]

Args1(k, v) == [x \in {k} |-> v]

Args2(k1, v1, k2, v2) == [x \in {k1, k2} |-> IF x = k1 THEN v1 ELSE v2]

Args3(k1, v1, k2, v2, k3, v3) ==
    [x \in {k1, k2, k3} |-> IF x = k1 THEN v1 ELSE IF x = k2 THEN v2 ELSE v3]

s_get_pet == <<"g","e","t","_","p","e","t">>

s_get_pet_x == s_get_pet \o <<"_","x">>

s_add_order == <<"a","d","d","_","o","r","d","e","r">>

s_nope == <<"n","o","p","e">>

\* invocations of the tools of Full mode (unknown tools in Search mode)
FullRequests ==
    {<<s_get_pet, NoArgs>>,
     <<s_get_pet, Args1(s_id, Num(<<"7">>))>>,
     <<s_get_pet, Args1(s_id, Str(<<"a", LoneSurrogate>>))>>,
     <<s_get_pet, Args2(s_id, Num(<<"7">>), s_Authorization, Str(<<"m">>))>>,
     <<s_get_pet_x, Args2(s_id, Str(<<"a", " ", "b">>), s_q, Str(<<"c", "&">>))>>,
     <<s_add_order, Args2(s_note, Str(<<"n">>), s_h, Str(<<"v">>))>>,
     <<s_add_order, Args1(s_body, Obj(Args1(s_note, Str(<<"n">>))))>>,
     <<generateToolName(EpDeletePet),
       Args2(s_id, Num(<<"7">>), <<"a","p","i","_","k","e","y">>, Str(<<"k">>))>>,
     <<s_nope, NoArgs>>}

\* argument mappings sent to search_endpoints
SearchArgs ==
    {NoArgs,
     Args1(s_query, Str(s_pet)),
     Args1(s_query, Num(<<"5">>)),
     Args1(s_query, Str(<<"z","z">>)),
     Args2(s_query, Str(s_pet), s_tags, Str(s_pet)),
     Args2(s_query, Str(<<"P","E","T"," ","x">>), s_tags, Arr(<<Str(<<"P","e","t">>)>>)),
     Args2(s_query, Str(s_pet), s_methods, Arr(<<Num(<<"1">>)>>)),
     Args2(s_query, Str(<<"a">>), s_limit, Num(<<"1">>))}

\* argument mappings sent to call_endpoint
CallArgs ==
    {NoArgs,
     Args1(s_endpoint_id, Str(<<>>)),
     Args1(s_endpoint_id, Num(<<"5">>)),
     Args1(s_endpoint_id, Str(<<"z","z">>)),
     Args1(s_endpoint_id, Str(<<"g","e","t","_","p","e">>)),
     Args1(s_endpoint_id, Str(s_get_pet_x \o <<"y">>)),
     Args2(s_endpoint_id, Str(s_get_pet), s_id, Num(<<"7">>)),
     Args2(s_endpoint_id, Str(s_get_pet), s_id, Str(<<LoneSurrogate>>)),
     Args3(s_endpoint_id, Str(s_get_pet_x), s_id, Num(<<"7">>), s_note, Str(<<"n">>)),
     Args2(s_endpoint_id, Str(s_add_order), s_note, Str(<<"n">>)),
     Args3(s_endpoint_id, Str(generateToolName(EpDeletePet)), s_id, Num(<<"7">>),
           <<"a","p","i","_","k","e","y">>, Str(<<"k">>))}

\* the invocation requests a client sends: tool name and argument mapping
Requests ==
    FullRequests
    \cup ({s_search_endpoints} \X SearchArgs)
    \cup ({s_call_endpoint} \X CallArgs)

NoLast == [op |-> "none", name |-> <<>>, args |-> NoArgs, tool |-> 0,
           sent |-> <<>>, awaited |-> FALSE, overlapped |-> FALSE,
           outcome |-> CHOOSE o \in NetworkOutcomes : o.kind = "reject",
           response |-> Thrown(Error("", "", <<>>)), listed |-> <<>>]

IsError(response) == response.kind = "thrown" \/ response.isError

----------------------------------------------------------------------------
(* Initial states *)

TheAuth == AuthConfig("bearer", <<"t">>, <<>>, <<>>, <<>>)

\* the CLI action, run on the document that holds the first n operations with
\* the filter options given; it creates the server of mode m
Started(m, n, options) ==
    LET parsedSpec == parseSpec(n)
        filtered == filterEndpoints(parsedSpec.endpoints, options)
        cfg == cliConfig(n, TheAuth)
    IN  /\ mode = m
        /\ config = cfg
        /\ cli = [options |-> options, filteredEndpoints |-> filtered,
                  tools |-> generateTools([parsedSpec EXCEPT !.endpoints = filtered])]
        /\ server = createServer(cfg)
        /\ inflight = [s \in Slots |-> Idle]
        /\ last = NoLast
        /\ errors = FALSE

\* started without filter options, on a document of any size
Init ==
    \E m \in {"full", "search"}, n \in 0..Len(DocumentEndpoints) :
        Started(m, n, NoCliOptions)

----------------------------------------------------------------------------
(* Actions: one per handler, and the settling of fetch *)

Frame == UNCHANGED <<mode, config, cli, server>>

\* what a call handler leaves behind, given what it did up to its first wait
Handled(s, name, args, step) ==
    IF step.kind = "await"
    THEN /\ inflight' = [inflight EXCEPT ![s] =
                            [pc |-> "fetching", name |-> name, args |-> args,
                             tool |-> step.tool, sent |-> step.sent]]
         /\ UNCHANGED <<last, errors>>
    ELSE /\ last' = [NoLast EXCEPT !.op = "call", !.name = name, !.args = args,
                                   !.tool = step.tool, !.sent = step.sent,
                                   !.response = step.response]
         /\ errors' = (errors \/ IsError(step.response))
         /\ UNCHANGED inflight

FullListTools ==
    /\ mode = "full"
    /\ last' = [NoLast EXCEPT !.op = "list", !.listed = fullListTools(server.tools)]
    /\ UNCHANGED <<inflight, errors>>
    /\ Frame

FullCallTool(s, name, args) ==
    /\ mode = "full"
    /\ inflight[s] = Idle
    /\ Handled(s, name, args,
               fullCallTool(server.tools, server.baseUrl, server.authHeaders, name, args))
    /\ Frame

SearchListTools ==
    /\ mode = "search"
    /\ last' = [NoLast EXCEPT !.op = "list", !.listed = searchListTools(server.metaTools)]
    /\ UNCHANGED <<inflight, errors>>
    /\ Frame

SearchCallTool(s, name, args) ==
    /\ mode = "search"
    /\ inflight[s] = Idle
    /\ Handled(s, name, args,
               searchCallTool(server.tools, server.baseUrl, server.authHeaders, name, args))
    /\ Frame

\* fetch settles for the invocation of slot s: the rest of executeApiCall and
\* of the handler's try/catch run, and the handler returns
FetchSettles(s, outcome) ==
    /\ inflight[s] # Idle
    /\ LET inv == inflight[s]
           response == settledResult(outcome)
       IN  /\ last' = [NoLast EXCEPT !.op = "call", !.name = inv.name,
                                     !.args = inv.args, !.tool = inv.tool,
                                     !.sent = inv.sent, !.awaited = TRUE,
                                     !.overlapped =
                                        \E o \in Slots \ {s} : inflight[o] # Idle,
                                     !.outcome = outcome, !.response = response]
           /\ errors' = (errors \/ IsError(response))
    /\ inflight' = [inflight EXCEPT ![s] = Idle]
    /\ Frame

Next ==
    \/ FullListTools
    \/ SearchListTools
    \/ \E s \in Slots, r \in Requests : FullCallTool(s, r[1], r[2])
    \/ \E s \in Slots, r \in Requests : SearchCallTool(s, r[1], r[2])
    \/ \E s \in Slots, o \in NetworkOutcomes : FetchSettles(s, o)

Spec == Init /\ [][Next]_vars

\* the filter options the CLI is started with
FilterOptions ==
    {CliOptions(<<" ","P","e","t">>, NoPattern, NoPattern),
     CliOptions(<<>>, Pattern(TRUE, <<"/","s","t","o","r","e">>), NoPattern),
     CliOptions(<<>>, NoPattern, Pattern(FALSE, <<"/","x">>))}

\* started by the CLI with --tags, --include or --exclude
InitCli ==
    \E m \in {"full", "search"}, options \in FilterOptions :
        Started(m, Len(DocumentEndpoints), options)

SpecCli == InitCli /\ [][Next]_vars

\* started on the document whose two tool names collide, with the auth type
\* bearer or oauth2, with or without a token; the token URL and the client
\* credentials are configured
InitConfigured ==
    \E m \in {"full", "search"},
       type \in {"bearer", "oauth2"}, token \in {<<>>, <<"t">>} :
        LET n == Len(DocumentEndpoints) + 1
            cfg == cliConfig(n, [type |-> type, token |-> token, headerName |-> <<>>,
                                 username |-> <<>>, password |-> <<>>,
                                 tokenUrl |-> <<"h","t","t","p",":","/","/","t">>,
                                 clientId |-> <<"i">>, clientSecret |-> <<"s">>])
        IN  /\ mode = m
            /\ config = cfg
            /\ cli = [options |-> NoCliOptions,
                      filteredEndpoints |-> parseSpec(n).endpoints,
                      tools |-> generateTools(parseSpec(n))]
            /\ server = createServer(cfg)
            /\ inflight = [s \in Slots |-> Idle]
            /\ last = NoLast
            /\ errors = FALSE

SpecConfigured == InitConfigured /\ [][Next]_vars

----------------------------------------------------------------------------
(* The functions of the request builder, the authenticator and the parser,
   each applied on its own to inputs of its parameter types *)

\* no server handles requests: the functions are called directly
InitLib == Started("library", 0, NoCliOptions)

\* the functions keep no state between calls: each behaviour applies one
\* function once, and nothing but the record of that call changes
LibFrame ==
    /\ mode = "library"
    /\ last = NoLast
    /\ UNCHANGED <<mode, config, cli, server, inflight, errors>>

\* buildUrl(baseUrl, endpoint, args); the base URL is that of the document or
\* one with a server variable, "http://x/{id}"
LibBuildUrl(baseUrl, endpoint, args) ==
    /\ LibFrame
    /\ last' = [op |-> "buildUrl", baseUrl |-> baseUrl, endpoint |-> endpoint,
                args |-> args,
                threw |-> buildUrlThrows(endpoint, args),
                url |-> IF buildUrlThrows(endpoint, args) THEN <<>>
                        ELSE buildUrl(baseUrl, endpoint, args)]

\* searchEndpoints(tools, query, {tags, methods, limit}) on the tools of the
\* whole document, with arguments of the declared types
LibSearchEndpoints(query, tags, methods, limitArg) ==
    /\ LibFrame
    /\ LET tools == generateTools(parseSpec(Len(DocumentEndpoints)))
       IN  last' = [op |-> "searchEndpoints", tools |-> tools, query |-> query,
                    tags |-> tags, methods |-> methods, limit |-> limitArg,
                    results |-> searchEndpoints(tools, Str(query), tags, methods,
                                                limitArg)]

\* getAuthHeaders(auth) called on its own
LibGetAuthHeaders(auth) ==
    /\ LibFrame
    /\ last' = [op |-> "getAuthHeaders", auth |-> auth, headers |-> getAuthHeaders(auth)]

\* createAuthenticatedFetch(auth)(url, init), up to the call of fetch
LibAuthenticatedFetch(auth, url, init) ==
    /\ LibFrame
    /\ LET authHeaders == getAuthHeaders(auth)
       IN  last' = [op |-> "authenticatedFetch", auth |-> auth, url |-> url,
                    init |-> init, authHeaders |-> authHeaders,
                    request |-> authenticatedFetch(authHeaders, url, init)]

\* getOAuth2Token(auth) with the outcome of its token exchange
LibGetOAuth2Token(auth, exchange) ==
    /\ LibFrame
    /\ LET r == getOAuth2Token(auth, exchange)
       IN  last' = [op |-> "getOAuth2Token", auth |-> auth, exchange |-> exchange,
                    sent |-> r.sent, threw |-> r.threw, value |-> r.value]

\* parseSpec from the document SwaggerParser.dereference resolved to (its
\* paths, and whether it is OpenAPI 3), followed by generateTools
LibParseSpec(paths, isV3) ==
    /\ LibFrame
    /\ LET endpoints == parsePaths(paths, isV3)
       IN  last' = [op |-> "parseSpec", paths |-> paths, isV3 |-> isV3,
                    endpoints |-> endpoints,
                    tools |-> generateTools([endpoints |-> endpoints])]

\* the RequestInit that executeApiCall builds, in Full mode or in Search mode
LibRequestInit(route, endpoint, args) ==
    /\ LibFrame
    /\ last' = [op |-> "requestInit", route |-> route, endpoint |-> endpoint,
                args |-> args,
                init |-> IF route = "full" THEN fullRequestInit(endpoint, args)
                         ELSE searchRequestInit(endpoint, args)]

NextLib ==
    \/ \E query \in {s_pet, <<"P","E","T"," ","x">>, <<" ","p","e","t">>,
                      <<"z","z"," ">>, <<"a">>, <<"g","e","t"," "," ","p","e","t">>,
                      <<>>},
          tags \in {Undefined, Arr(<<>>), Arr(<<Str(<<"P","e","t">>)>>),
                     Arr(<<Str(<<"S","T","O","R","E">>), Str(<<"z","z">>)>>)},
          methods \in {Undefined, Arr(<<Str(<<"G","E","T">>)>>),
                        Arr(<<Str(s_post), Str(<<"D","e","l","e","t","e">>)>>)},
          limitArg \in {Undefined, Num(<<"0">>), Num(<<"1">>), Num(<<"2">>)} :
            LibSearchEndpoints(query, tags, methods, limitArg)
    \/ \E baseUrl \in {s_baseUrl, s_baseUrl \o <<"/","{","i","d","}">>},
          i \in 1..Len(DocumentEndpoints), r \in Requests :
            LibBuildUrl(baseUrl, DocumentEndpoints[i], r[2])
    \/ \E type \in {"undefined", "none", "bearer", "apikey", "basic", "oauth2"},
          token \in {<<>>, <<"t">>}, headerName \in {<<>>, <<"h">>},
          username \in {<<>>, <<"u">>}, password \in {<<>>, <<"p">>} :
            LibGetAuthHeaders(AuthConfig(type, token, headerName, username, password))
    \/ \E type \in {"undefined", "none", "bearer", "apikey", "basic", "oauth2"},
          token \in {<<>>, <<"t">>}, headerName \in {<<>>, <<"h">>},
          headers \in {<<>>,
                       <<<<s_ContentType, <<"j">>>>, <<<<"A","c","c","e","p","t">>, <<"a">>>>>>,
                       <<<<toLowerCase(s_Authorization), <<"m">>>>,
                         <<<<"A","c","c","e","p","t">>, <<"a">>>>>>,
                       <<<<s_Authorization, <<"m">>>>>>,
                       <<<<<<"H">>, <<"m">>>>, <<s_XAPIKey, <<"m">>>>>>,
                       <<<<<<"A">>, <<"a">>>>, <<<<"a">>, <<"b">>>>>>} :
            LibAuthenticatedFetch(
                AuthConfig(type, token, headerName, <<"u">>, <<"p">>),
                s_baseUrl,
                [method |-> s_post, headers |-> headers, body |-> serializeBody(Undefined)])
    \/ \E type \in {"oauth2", "bearer"},
          tokenUrl \in {<<>>, <<"u">>}, clientId \in {<<>>, <<"i">>},
          clientSecret \in {<<>>, <<"s">>},
          kind \in {"reject", "response"}, ok \in BOOLEAN, validJson \in BOOLEAN,
          data \in {Null, Obj(NoArgs), Obj(Args1(<<"a","c","c","e","s","s","_","t","o","k","e","n">>, Str(<<"k">>))),
                    Obj(Args1(<<"a","c","c","e","s","s","_","t","o","k","e","n">>, Num(<<"1">>)))} :
            /\ kind = "reject" => ~ok
            /\ ~ok => ~validJson
            /\ ~validJson => data = Null
            /\ LibGetOAuth2Token(
                  [type |-> type, tokenUrl |-> tokenUrl, clientId |-> clientId,
                   clientSecret |-> clientSecret],
                  [kind |-> kind, ok |-> ok, validJson |-> validJson, data |-> data])
    \/ LET none == Operation(<<>>, <<>>, NoRequestBody, <<>>)
           pets ==
             PathItem(<<"/","p","e","t","s","/","{","p","e","t","I","d","}">>,
               <<RawParameter(<<"p","e","t","I","d">>, "path", TRUE, NoRequestBody)>>,
               [m \in {s_get, s_post} |->
                  IF m = s_get
                  THEN Operation(<<>>,
                         <<RawParameter(<<"p","e","t","I","d">>, "path", FALSE, NoRequestBody),
                           RawParameter(<<"l","i","m","i","t">>, "query", TRUE, NoRequestBody),
                           RawParameter(<<"X">>, "header", FALSE, NoRequestBody),
                           RawParameter(<<"c">>, "cookie", TRUE, NoRequestBody),
                           RawParameter(<<"f">>, "formData", FALSE, NoRequestBody)>>,
                         NoRequestBody, <<s_pet>>)
                  ELSE Operation(<<"a","d","d","P","e","t">>,
                         <<RawParameter(<<"p","e","t","I","d">>, "query", TRUE, NoRequestBody),
                           RawParameter(<<"b">>, "body", TRUE, RequestBodyInfo(FALSE, <<>>, "object", TRUE,
                               <<<<"p","e","t","I","d">>, <<"n","a","m","e">>>>, <<<<"p","e","t","I","d">>>>))>>,
                         RequestBodyInfo(TRUE, <<>>, "array", FALSE, <<>>, <<>>),
                         <<>>)])
           dash == PathItem(<<"/","a","-","b">>, <<>>, [m \in {s_get} |-> none])
           slash ==
             PathItem(<<"/","a","/","b">>, <<>>,
               [m \in {s_get, <<"d","e","l","e","t","e">>} |->
                  IF m = s_get THEN none
                  ELSE Operation(<<"2","f","a">>,
                         <<RawParameter(<<"b","o","d","y">>, "query", TRUE, NoRequestBody)>>,
                         RequestBodyInfo(FALSE, s_json, "object", TRUE,
                                         <<s_body>>, <<s_body>>),
                         <<>>)])
           list ==
             PathItem(<<"/","p","e","t","s">>, <<>>,
               [m \in {s_get, <<"p","u","t">>} |->
                  IF m = s_get THEN Operation(<<"a","d","d","P","e","t">>, <<>>, NoRequestBody, <<s_pet>>)
                  ELSE Operation(<<"L","i","s","t","-","p","e","t","s"," ","v","2">>,
                         <<RawParameter(<<"b">>, "body", TRUE,
                             RequestBodyInfo(FALSE, <<>>, "array", FALSE, <<>>, <<>>))>>,
                         NoRequestBody, <<>>)])
           pool == {pets, dash, slash, list}
       IN  \E paths \in {<<>>} \cup {<<a>> : a \in pool}
                         \cup {pair \in pool \X pool : pair[1] # pair[2]}
                         \cup {<<dash, slash, pets>>},
              isV3 \in BOOLEAN :
                LibParseSpec(paths, isV3)
    \/ \E route \in {"full", "search"},
          endpoint \in seqToSet(DocumentEndpoints)
                       \cup {[EpGetPetX EXCEPT !.method = s_post,
                                               !.requestBody = EpAddOrder.requestBody]},
          args \in {NoArgs,
                    Args1(s_body, Bool(FALSE)),
                    Args1(s_body, Num(<<"0">>)),
                    Args1(s_body, Str(<<>>)),
                    Args1(s_body, Null),
                    Args1(s_body, Obj(Args1(s_note, Str(<<"n">>)))),
                    Args2(s_body, Str(<<"x">>), s_note, Str(<<"n">>)),
                    Args2(s_id, Num(<<"7">>), s_q, Str(<<"c">>)),
                    Args3(s_id, Num(<<"7">>), s_note, Str(<<"n">>), s_h, Str(<<"v">>)),
                    Args1(s_endpoint_id, Str(s_add_order)),
                    Args2(s_endpoint_id, Str(s_add_order), s_id, Num(<<"7">>)),
                    Args3(s_endpoint_id, Str(s_add_order), s_note, Str(<<"n">>),
                          s_h, Str(<<"v">>))} :
            LibRequestInit(route, endpoint, args)

SpecLib == InitLib /\ [][NextLib]_vars

----------------------------------------------------------------------------
(* Properties of the handlers *)

\* the last finished request was an invocation
Invoked == last.op = "call"

\* the tool an invocation matches, from its own name and arguments: in Full
\* mode the tool of that name, in Search mode the tool whose name is the
\* endpoint_id given to call_endpoint; 0 when it matches none
OwnTool(name, args) ==
    IF mode = "full" THEN findTool(server.tools, name)
    ELSE IF name = s_call_endpoint /\ Get(args, s_endpoint_id).t = "string"
    THEN findTool(server.tools, Get(args, s_endpoint_id).v)
    ELSE 0

\* the request built from one invocation's own tool and arguments and from
\* what the server derived at startup
OwnRequest(tool, args) ==
    LET endpoint == server.tools[tool].endpoint
        init == IF mode = "full" THEN fullRequestInit(endpoint, args)
                ELSE searchRequestInit(endpoint, args)
    IN  [url |-> buildUrl(server.baseUrl, endpoint, args),
         method |-> init.method,
         headers |-> setAll(newHeaders(init.headers), server.authHeaders),
         body |-> init.body]

\* an error is thrown before the request of a matched invocation goes out
ThrowsBeforeSending(tool, args) ==
    \/ buildUrlThrows(server.tools[tool].endpoint, args)
    \/ fetchRejects(OwnRequest(tool, args))

\* C1: in Full mode an invocation that names a tool that does not exist ends
\* with a result whose isError is true, not with an error thrown by the handler
C1_UnknownToolIsErrorResult ==
    (mode = "full" /\ Invoked /\ findTool(server.tools, last.name) = 0)
        => (last.response.kind = "result" /\ last.response.isError)

\* C2: in Search mode every invocation, whatever its tool name and arguments,
\* ends with a result {content, isError?}; the handler never throws
C2_SearchHandlerNeverThrows ==
    (mode = "search" /\ Invoked) => last.response.kind = "result"

\* C3: for an invocation that matched a tool, an error thrown while the HTTP
\* call is built or executed (fetch rejects, the response body does not
\* parse, the URL cannot be encoded, fetch refuses the request) yields a
\* result with isError true whose text carries the message of that error; the
\* handler does not throw
C3_ThrownErrorBecomesErrorResult ==
    (Invoked /\ last.tool # 0) =>
        /\ last.response.kind = "result"
        /\ (last.awaited /\ responseValue(last.outcome).thrown) =>
              /\ last.response.isError
              /\ last.response.text.tpl = "Error: ${message}"
              /\ last.response.text.message = responseValue(last.outcome).error.message
        /\ ~last.awaited =>
              /\ last.response.isError
              /\ last.response.text.tpl = "Error: ${message}"
              /\ last.response.text.message =
                    IF buildUrlThrows(server.tools[last.tool].endpoint, last.args)
                    THEN "URI malformed"
                    ELSE "Request with GET/HEAD method cannot have body"

\* a matched invocation whose response body did not parse as JSON
C3_Witness ==
    /\ Invoked /\ last.tool # 0 /\ last.awaited
    /\ last.outcome.kind = "response" /\ responseValue(last.outcome).thrown
    /\ last.response.kind = "result" /\ last.response.isError

\* C4: when the backend answers with a non-success status, the result of the
\* invocation has isError true, in both modes
C4_NonSuccessStatusIsError ==
    (Invoked /\ last.awaited /\ last.outcome.kind = "response"
        /\ last.outcome.status \notin 200..299)
        => (last.response.kind = "result" /\ last.response.isError)

\* the endpoints that pass the filters of the CLI, and their tool names
PassedEndpoints == seqToSet(cli.filteredEndpoints)

PassedNames == {generateToolName(ep) : ep \in PassedEndpoints}

\* C5: a server started by the CLI with --tags, --include or --exclude lists,
\* finds by search_endpoints and invokes only endpoints that pass the filter
C5_OnlyFilteredEndpointsServed ==
    /\ (mode = "full" /\ last.op = "list") =>
          \A i \in 1..Len(last.listed) : last.listed[i].name \in PassedNames
    /\ (Invoked /\ last.response.kind = "result"
          /\ last.response.text.tpl = "Found ${results.length} matching endpoint(s)") =>
          \A i \in 1..Len(last.response.text.ids) :
              last.response.text.ids[i] \in PassedNames
    /\ (Invoked /\ last.tool # 0) =>
          server.tools[last.tool].endpoint \in PassedEndpoints
    /\ \A s \in Slots : inflight[s] # Idle =>
          server.tools[inflight[s].tool].endpoint \in PassedEndpoints

\* C6: in Search mode the listing returns exactly two tools, search_endpoints
\* and call_endpoint, whatever the number of endpoints of the spec and
\* whatever requests were served before
C6_SearchListsTwoMetaTools ==
    (mode = "search" /\ last.op = "list") =>
        [i \in 1..Len(last.listed) |-> last.listed[i].name]
            = <<s_search_endpoints, s_call_endpoint>>

\* a Search-mode listing of a spec of three endpoints after a failed invocation
C6_Witness ==
    /\ mode = "search" /\ last.op = "list" /\ errors
    /\ Len(server.tools) = Len(DocumentEndpoints)
    /\ Len(last.listed) = Len(server.metaTools)

\* C7: serving never changes the tool set derived at startup; in Full mode
\* the listing returns the name, description and input schema of every
\* generated tool in the order of the endpoints, also after invocations that
\* succeeded or failed
C7_FullListsEveryToolUnchanged ==
    LET endpoints == parseSpec(config.spec).endpoints
    IN  /\ server.tools = generateTools(parseSpec(config.spec))
        /\ (mode = "full" /\ last.op = "list") =>
              /\ Len(last.listed) = Len(endpoints)
              /\ \A i \in 1..Len(endpoints) :
                    last.listed[i] =
                        [name |-> generateToolName(endpoints[i]),
                         description |-> generateToolDescription(endpoints[i]),
                         inputSchema |-> generateInputSchema(endpoints[i])]

\* a Full-mode listing of three tools after a failed invocation
C7_Witness ==
    /\ mode = "full" /\ last.op = "list" /\ errors
    /\ Len(last.listed) = Len(DocumentEndpoints)

\* C8: call_endpoint with an endpoint_id (a value given, neither missing nor
\* empty) that equals no tool name sends nothing and returns a result with
\* isError true that names every tool whose name contains endpoint_id or is
\* contained in it, or that directs to search_endpoints when there is none
C8_NoExactMatchSuggests ==
    (mode = "search" /\ Invoked /\ last.name = s_call_endpoint
        /\ Truthy(Get(last.args, s_endpoint_id))
        /\ OwnTool(last.name, last.args) = 0) =>
        LET endpointId == Get(last.args, s_endpoint_id)
            similar == SelectSeq(server.tools,
                           LAMBDA t : \/ includes(t.name, String(endpointId))
                                      \/ includes(String(endpointId), t.name))
        IN  /\ last.sent = <<>>
            /\ last.response.kind = "result"
            /\ last.response.isError
            /\ IF Len(similar) > 0
               THEN /\ last.response.text.tpl = "Endpoint not found. Did you mean"
                    /\ last.response.text.names =
                          [i \in 1..Len(similar) |-> similar[i].name]
               ELSE last.response.text.tpl = "Endpoint not found. Use search_endpoints"

\* C9 as stated: every invocation causes at most one request; an invocation
\* that matched a tool causes one, any other invocation none
C9_OneRequestWhenMatched ==
    /\ \A s \in Slots : inflight[s] # Idle => Len(inflight[s].sent) = 1
    /\ Invoked =>
          Len(last.sent) = IF OwnTool(last.name, last.args) # 0 THEN 1 ELSE 0

\* C9: every invocation causes at most one request and no request is sent a
\* second time after it failed; an invocation that matched a tool causes one
\* request, unless an error is thrown before the request goes out (the URL
\* cannot be encoded, fetch refuses a GET request with a body), and then it
\* causes none; an invocation that matched no tool, or search_endpoints,
\* causes none
C9_OneRequestUnlessThrownBefore ==
    /\ \A s \in Slots : inflight[s] # Idle =>
          /\ Len(inflight[s].sent) = 1
          /\ OwnTool(inflight[s].name, inflight[s].args) # 0
    /\ Invoked =>
          LET tool == OwnTool(last.name, last.args)
          IN  Len(last.sent) =
                 IF tool # 0 /\ ~ThrowsBeforeSending(tool, last.args) THEN 1 ELSE 0

\* a matched invocation that sent nothing: an error was thrown before
C9_Witness ==
    /\ Invoked /\ OwnTool(last.name, last.args) # 0
    /\ ThrowsBeforeSending(OwnTool(last.name, last.args), last.args)
    /\ last.sent = <<>>

\* C10: with two invocations in flight, the request of each is the one built
\* from its own tool and arguments alone, and its result is the one its own
\* network outcome gives, in whatever order the two network calls settle
C10_PipelinedAsAlone ==
    /\ \A s \in Slots : inflight[s] # Idle =>
          /\ inflight[s].tool = OwnTool(inflight[s].name, inflight[s].args)
          /\ inflight[s].sent = <<OwnRequest(inflight[s].tool, inflight[s].args)>>
    /\ (Invoked /\ last.awaited) =>
          /\ last.tool = OwnTool(last.name, last.args)
          /\ last.sent = <<OwnRequest(last.tool, last.args)>>
          /\ last.response = settledResult(last.outcome)

\* an invocation finished while another one, with another request, waited
C10_Witness ==
    /\ Invoked /\ last.awaited /\ last.overlapped
    /\ \E s \in Slots : inflight[s] # Idle /\ inflight[s].sent # last.sent

\* the invocations whose request went out: those that wait for fetch, and
\* the last one that ended if it had sent
Outbound ==
    {[tool |-> inflight[s].tool, args |-> inflight[s].args,
      request |-> inflight[s].sent[1]] : s \in {x \in Slots : inflight[x] # Idle}}
    \cup (IF Invoked /\ last.awaited
          THEN {[tool |-> last.tool, args |-> last.args, request |-> last.sent[1]]}
          ELSE {})

\* C11: for an endpoint that declares no request body the outbound request
\* has no body, whatever the argument mapping holds, in Full mode and in
\* Search mode (call_endpoint)
C11_NoBodyWithoutDeclaredBody ==
    \A o \in Outbound :
        ~server.tools[o.tool].endpoint.requestBody.present => ~o.request.body.present

\* C12: in both modes, for every header parameter declared on the endpoint
\* whose name is a key of the argument mapping, the outbound request carries
\* a header of that name whose value is the stringified argument value
C12_HeaderParamsSent ==
    \A o \in Outbound :
        LET params == server.tools[o.tool].endpoint.headerParams
        IN  \A i \in 1..Len(params) :
                params[i].name \in DOMAIN o.args =>
                    /\ toLowerCase(params[i].name) \in DOMAIN o.request.headers
                    /\ o.request.headers[toLowerCase(params[i].name)]
                          = String(o.args[params[i].name])

\* the declared parameters of a list that have a value in the mapping
PresentParams(params, args) ==
    SelectSeq(params, LAMBDA p : Get(args, p.name) # Undefined)

\* text in which, for each parameter of params in turn, the first {name} is
\* replaced by the percent-encoded string form of its value
RECURSIVE Substituted(_, _, _)
Substituted(text, params, args) ==
    IF Len(params) = 0 THEN text
    ELSE Substituted(
            replaceFirst(text, <<"{">> \o params[1].name \o <<"}">>,
                         encodeURIComponent(String(args[params[1].name]))),
            Tail(params), args)

\* "?" and name=value for the declared query parameters that are present,
\* nothing when there are none
QueryPart(params, args) ==
    LET present == PresentParams(params, args)
    IN  IF Len(present) = 0 THEN <<>>
        ELSE <<"?">> \o joinStrings(
                [i \in 1..Len(present) |->
                    formUrlEncode(present[i].name) \o <<"=">>
                    \o formUrlEncode(String(args[present[i].name]))],
                <<"&">>)

UrlBuilt == last.op = "buildUrl" /\ ~last.threw

\* C13 as stated: the built URL is baseUrl, followed by the path template
\* with the placeholders of the present path parameters replaced, followed
\* by the query string of the present query parameters
C13_UrlIsBasePathQuery ==
    UrlBuilt =>
        last.url = last.baseUrl
                   \o Substituted(last.endpoint.path,
                                  PresentParams(last.endpoint.pathParams, last.args),
                                  last.args)
                   \o QueryPart(last.endpoint.queryParams, last.args)

\* C13: the built URL is baseUrl + path template in which, for each declared
\* path parameter that has a value, the first occurrence of {name} in the
\* whole of baseUrl + path is replaced by the percent-encoded string form of
\* the value (placeholders of absent parameters stay), followed by "?" and
\* name=value of exactly the declared query parameters present, and by
\* nothing when there are none
C13_UrlIsSubstitutedBasePathQuery ==
    UrlBuilt =>
        last.url = Substituted(last.baseUrl \o last.endpoint.path,
                               PresentParams(last.endpoint.pathParams, last.args),
                               last.args)
                   \o QueryPart(last.endpoint.queryParams, last.args)

\* a URL built on a base URL that holds the placeholder of a path parameter
\* that has a value: the placeholder of the path template stays
C13_Witness ==
    /\ UrlBuilt
    /\ includes(last.baseUrl, <<"{","i","d","}">>)
    /\ Get(last.args, s_id) # Undefined
    /\ includes(last.url, last.endpoint.path)
    /\ ~includes(last.url, <<"?">>)

Searched == last.op = "searchEndpoints"

\* a caller-supplied set of tags or methods, lowercased; empty when absent
Supplied(val) ==
    IF val.t = "array" THEN {toLowerCase(val.v[i].v) : i \in 1..Len(val.v)} ELSE {}

\* the tool passes the tag set and the method set of the caller
PassesFilters(tool, tags, methods) ==
    /\ Supplied(tags) # {} =>
          \E k \in 1..Len(tool.endpoint.tags) :
              toLowerCase(tool.endpoint.tags[k]) \in Supplied(tags)
    /\ Supplied(methods) # {} =>
          toLowerCase(tool.endpoint.method) \in Supplied(methods)

\* C14: search_endpoints never returns a tool none of whose tags is,
\* case-insensitively, in a non-empty tag set of the caller, nor a tool whose
\* method is not, case-insensitively, in a non-empty method set of the
\* caller, whatever the score of the tool
C14_ResultsPassFilters ==
    Searched =>
        \A k \in 1..Len(last.results) :
            PassesFilters(last.tools[last.results[k]], last.tags, last.methods)

\* the whitespace-delimited words of a query
WordsOf(query) ==
    SelectSeq(splitWhitespace(query, 1, <<>>), LAMBDA w : Len(w) > 0)

\* 10 when the field holds the whole query, and 5 for each word it holds,
\* summed over the lowercased fields
RECURSIVE ScoreOver(_, _)
ScoreOver(fields, query) ==
    IF Len(fields) = 0 THEN 0
    ELSE LET field == toLowerCase(fields[1])
             words == WordsOf(query)
         IN  (IF includes(field, query) THEN 10 ELSE 0)
             + 5 * Cardinality({i \in 1..Len(words) : includes(field, words[i])})
             + ScoreOver(Tail(fields), query)

ScoreOf(tool, query) ==
    ScoreOver(<<tool.name, tool.description, tool.endpoint.path,
                tool.endpoint.summary, tool.endpoint.operationId>>
              \o tool.endpoint.tags, toLowerCase(query))

\* a tool with a positive score is left out because of the filters
C14_Witness ==
    /\ Searched /\ Len(last.results) > 0
    /\ Supplied(last.tags) # {} /\ Supplied(last.methods) # {}
    /\ \E i \in 1..Len(last.tools) :
          /\ ScoreOf(last.tools[i], last.query) > 0
          /\ ~PassesFilters(last.tools[i], last.tags, last.methods)
          /\ \A k \in 1..Len(last.results) : last.results[k] # i

\* C15: for every query, leading, trailing or repeated whitespace included,
\* search_endpoints returns before truncation exactly the candidates of
\* positive score, by descending score, equal scores in tool order; the score
\* adds over name, description, path, summary, operationId and each tag 10
\* when the field holds the whole query and 5 for each word of the query it
\* holds
C15_RankedByScore ==
    (Searched /\ last.limit = Undefined) =>
        LET r == last.results
            score == [i \in 1..Len(last.tools) |-> ScoreOf(last.tools[i], last.query)]
        IN  /\ {r[k] : k \in 1..Len(r)} =
                  {i \in 1..Len(last.tools) :
                      /\ PassesFilters(last.tools[i], last.tags, last.methods)
                      /\ score[i] > 0}
            /\ \A a, b \in 1..Len(r) :
                  a < b => \/ score[r[a]] > score[r[b]]
                           \/ score[r[a]] = score[r[b]] /\ r[a] < r[b]

\* C16: search_endpoints returns at most limit tools for a limit that is a
\* non-negative integer, 0 included, and at most 10 when no limit is given;
\* they are the first ones of the ranked order
C16_AtMostLimit ==
    Searched =>
        /\ Len(last.results) <=
              (IF last.limit = Undefined THEN 10 ELSE toInteger(last.limit))
        /\ LET ranked == searchEndpoints(last.tools, Str(last.query), last.tags,
                                         last.methods, Undefined)
           IN  last.results = SubSeq(ranked, 1, Len(last.results))

HeadersComputed == last.op = "getAuthHeaders"

\* C17: getAuthHeaders returns no header for the type none and for an absent
\* config; exactly Authorization = "Bearer " + token for the types bearer and
\* oauth2 with a token; exactly one header, named by headerName, or X-API-Key
\* without one, that holds the token for the type apikey with a token;
\* exactly Authorization = "Basic " + base64(username:password) for the type
\* basic with a username and a password; no header when a needed field is
\* missing
C17_AuthHeadersByType ==
    HeadersComputed =>
        LET auth == last.auth
            one(name, value) == <<<<name, value>>>>
        IN  last.headers =
              CASE auth.type \in {"bearer", "oauth2"} /\ auth.token # <<>> ->
                      one(s_Authorization, s_Bearer \o auth.token)
                [] auth.type = "apikey" /\ auth.token # <<>> /\ auth.headerName # <<>> ->
                      one(auth.headerName, auth.token)
                [] auth.type = "apikey" /\ auth.token # <<>> /\ auth.headerName = <<>> ->
                      one(s_XAPIKey, auth.token)
                [] auth.type = "basic" /\ auth.username # <<>> /\ auth.password # <<>> ->
                      one(s_Authorization,
                          s_Basic \o base64(auth.username \o <<":">> \o auth.password))
                [] OTHER -> <<>>

\* basic credentials without a password give no header
C17_Witness ==
    /\ HeadersComputed
    /\ last.auth.type = "basic"
    /\ last.auth.username # <<>> /\ last.auth.password = <<>>
    /\ last.headers = <<>>

FetchWrapped == last.op = "authenticatedFetch"

\* the lowercased names of a list of header entries
NamesOf(entries) == {toLowerCase(entries[i][1]) : i \in 1..Len(entries)}

\* the value the caller gave to a header name; the values of a name given
\* more than once, in different cases, form the list "v1, v2"
CallerValue(entries, n) ==
    LET mine == SelectSeq(entries, LAMBDA e : toLowerCase(e[1]) = n)
    IN  joinStrings([i \in 1..Len(mine) |-> mine[i][2]], <<",", " ">>)

\* C18: the request the wrapper hands to fetch holds every header the caller
\* set whose name (header names compare without case) is not the name of a
\* computed auth header, with the value the caller gave, and for a name set
\* by both it holds the value of the authenticator; url, method and body are
\* the caller's
C18_AuthHeaderWinsOthersKept ==
    FetchWrapped =>
        LET caller == last.init.headers
            sent == last.request.headers
        IN  /\ DOMAIN sent = NamesOf(caller) \cup NamesOf(last.authHeaders)
            /\ \A n \in NamesOf(caller) \ NamesOf(last.authHeaders) :
                  sent[n] = CallerValue(caller, n)
            /\ \A k \in 1..Len(last.authHeaders) :
                  sent[toLowerCase(last.authHeaders[k][1])] = last.authHeaders[k][2]
            /\ last.request.url = last.url
            /\ last.request.method = last.init.method
            /\ last.request.body = last.init.body

\* the caller set the name of the auth header to another value, and one more
\* header
C18_Witness ==
    /\ FetchWrapped
    /\ \E k \in 1..Len(last.authHeaders), i, j \in 1..Len(last.init.headers) :
          /\ toLowerCase(last.init.headers[i][1]) = toLowerCase(last.authHeaders[k][1])
          /\ last.init.headers[i][1] # last.authHeaders[k][1]
          /\ last.init.headers[i][2] # last.authHeaders[k][2]
          /\ toLowerCase(last.init.headers[j][1]) \notin NamesOf(last.authHeaders)

TokenAsked == last.op = "getOAuth2Token"

\* the config lacks what the token exchange needs
NoExchange(auth) ==
    \/ auth.type # "oauth2" \/ auth.tokenUrl = <<>>
    \/ auth.clientId = <<>> \/ auth.clientSecret = <<>>

\* C19: getOAuth2Token never throws and resolves to a token string or to
\* null: to null, with no network call, when the type is not oauth2 or the
\* token URL, the client id or the client secret is missing; to null when the
\* token request throws or answers a non-success status; otherwise to the
\* access_token field of the JSON response
C19_TokenStringOrNull ==
    TokenAsked =>
        /\ ~last.threw
        /\ last.value.t \in {"string", "null"}
        /\ NoExchange(last.auth) => last.value = Null /\ last.sent = <<>>
        /\ (~NoExchange(last.auth) /\ (last.exchange.kind = "reject" \/ ~last.exchange.ok)) =>
              last.value = Null
        /\ (/\ ~NoExchange(last.auth) /\ last.exchange.ok
            /\ last.exchange.validJson /\ last.exchange.data.t = "object") =>
              last.value = Get(last.exchange.data.v, <<"a","c","c","e","s","s","_","t","o","k","e","n">>)

Parsed == last.op = "parseSpec"

\* C21: generateTools returns one tool per endpoint of the parsed spec, in
\* endpoint order, the endpoint of the i-th tool being the i-th endpoint; the
\* two lengths are equal for every spec, the empty one included
C21_OneToolPerEndpoint ==
    Parsed =>
        /\ Len(last.tools) = Len(last.endpoints)
        /\ \A i \in 1..Len(last.tools) : last.tools[i].endpoint = last.endpoints[i]

\* a spec of several endpoints, the first two different
C21_Witness ==
    /\ Parsed
    /\ Len(last.endpoints) >= 3
    /\ last.tools[1].endpoint # last.tools[2].endpoint

\* the text matches ^[a-z][a-z0-9_]*$
IsSnakeName(name) ==
    /\ Len(name) > 0
    /\ IsLower(name[1])
    /\ \A i \in 1..Len(name) : IsLower(name[i]) \/ IsDigit(name[i]) \/ name[i] = "_"

\* C22: the name of every tool generated from a parsed spec matches
\* ^[a-z][a-z0-9_]*$, whether the operationId of its endpoint was declared in
\* the document or synthesized from method and path, and one operationId
\* always gives one name
C22_NamesAreSnakeCase ==
    Parsed =>
        /\ \A i \in 1..Len(last.tools) : IsSnakeName(last.tools[i].name)
        /\ \A i, j \in 1..Len(last.tools) :
              last.tools[i].endpoint.operationId = last.tools[j].endpoint.operationId
                  => last.tools[i].name = last.tools[j].name

\* C22, amended: the name matches ^[a-z][a-z0-9_]*$ for every tool whose
\* operationId starts with a letter a-z or A-Z, which every synthesized
\* operationId does; one operationId always gives one name
C22_NamesAreSnakeCaseAfterLetter ==
    Parsed =>
        /\ \A i \in 1..Len(last.tools) :
              LET id == last.tools[i].endpoint.operationId
              IN  (Len(id) > 0 /\ (IsLower(id[1]) \/ IsUpper(id[1])))
                      => IsSnakeName(last.tools[i].name)
        /\ \A i \in 1..Len(last.paths) :
              \A m \in DOMAIN last.paths[i].operations :
                  last.paths[i].operations[m].operationId = <<>> =>
                      \E k \in 1..Len(last.tools) :
                          /\ last.tools[k].endpoint.path = last.paths[i].path
                          /\ last.tools[k].endpoint.method = m
                          /\ IsSnakeName(last.tools[k].name)
        /\ \A i, j \in 1..Len(last.tools) :
              last.tools[i].endpoint.operationId = last.tools[j].endpoint.operationId
                  => last.tools[i].name = last.tools[j].name

\* a declared operationId with an upper-case letter, a dash and a space, a
\* synthesized one, and one operationId declared twice
C22_Witness ==
    /\ Parsed
    /\ \E i, j \in 1..Len(last.tools) :
          /\ last.tools[i].endpoint.operationId = <<"L","i","s","t","-","p","e","t","s"," ","v","2">>
          /\ last.tools[i].name = <<"l","i","s","t","_","p","e","t","s","_","v","2">>
          /\ last.tools[j].endpoint.operationId = <<"a","d","d","P","e","t">>
    /\ \E i \in 1..Len(last.paths) :
          \E m \in DOMAIN last.paths[i].operations :
              last.paths[i].operations[m].operationId = <<>>

\* C23: in every generated tool inputSchema.type is "object", properties is a
\* mapping, required is a sequence and every name in required is a key of
\* properties, for every combination of path parameters, query parameters
\* and request body (flattened or single body property), names that collide
\* included
C23_RequiredNamesAreProperties ==
    Parsed =>
        \A i \in 1..Len(last.tools) :
            LET schema == last.tools[i].inputSchema
            IN  /\ schema.type = "object"
                /\ schema.properties = [k \in DOMAIN schema.properties |-> schema.properties[k]]
                /\ schema.required \in Seq(DOMAIN schema.properties)

\* a name shared by a required path parameter, a required query parameter
\* and a required property of a flattened body; a single body property
C23_Witness ==
    /\ Parsed
    /\ \E i, j \in 1..Len(last.tools) :
          LET e == last.tools[i].endpoint
              f == last.tools[j].endpoint
          IN  /\ e.requestBody.present /\ e.requestBody.schemaHasProps
              /\ \E n \in seqToSet(requiredNames(e.pathParams)) :
                    /\ n \in seqToSet(requiredNames(e.queryParams))
                    /\ n \in seqToSet(e.requestBody.schemaRequired)
                    /\ Cardinality({k \in 1..Len(last.tools[i].inputSchema.required) :
                                      last.tools[i].inputSchema.required[k] = n}) = 3
              /\ f.requestBody.present /\ ~f.requestBody.schemaHasProps
              /\ s_body \in DOMAIN last.tools[j].inputSchema.properties

\* the endpoint parsed from the operation of method m of the i-th path item
EndpointOf(i, m) ==
    CHOOSE e \in seqToSet(last.endpoints) :
        e.path = last.paths[i].path /\ e.method = m

\* the identifier the words give when each is capitalized and nothing else
\* changes, after the lowercase method
CamelCased(method, path) ==
    LET replaced == replacePlaceholders(path)
        spaced == [i \in 1..Len(replaced) |->
                    IF IsLower(replaced[i]) \/ IsUpper(replaced[i]) \/ IsDigit(replaced[i])
                    THEN replaced[i] ELSE " "]
        words == WordsOf(spaced)
    IN  toLowerCase(method)
        \o joinStrings([i \in 1..Len(words) |->
                          <<toUpperCaseChar(words[i][1])>> \o Tail(words[i])], <<>>)

\* C26: an operation keeps the operationId it declares; one that declares
\* none gets the lowercase method followed by the camel-cased words of the
\* path, a {param} placeholder giving the capitalized parameter name and the
\* other non-alphanumeric characters breaking words: get /pets/{petId} gives
\* getPetsPetId
C26_OperationIdKeptOrCamelCased ==
    Parsed =>
        \A i \in 1..Len(last.paths) :
            \A m \in DOMAIN last.paths[i].operations :
                LET declared == last.paths[i].operations[m].operationId
                IN  EndpointOf(i, m).operationId =
                        IF declared # <<>> THEN declared
                        ELSE CamelCased(m, last.paths[i].path)

\* C27: no two endpoints of a parsed spec have the same operationId, the
\* synthesized ones included
C27_OperationIdsUnique ==
    Parsed =>
        \A i, j \in 1..Len(last.endpoints) :
            i # j => last.endpoints[i].operationId # last.endpoints[j].operationId

\* the parameters of a list that have the location, as ParameterInfo
Located(parameters, in) ==
    LET found == SelectSeq(parameters, LAMBDA p : p.in = in)
    IN  [k \in 1..Len(found) |-> ParameterInfo(found[k].name, found[k].required)]

\* C28: for every operation each of the path, query and header lists holds
\* the path-item-level parameters of that location followed by the
\* operation-level ones, in declaration order, both entries kept when the two
\* levels share a name; a cookie or formData parameter is in none of them
C28_ParametersByLocation ==
    Parsed =>
        \A i \in 1..Len(last.paths) :
            \A m \in DOMAIN last.paths[i].operations :
                LET item == last.paths[i]
                    own == item.operations[m].parameters
                    e == EndpointOf(i, m)
                IN  /\ e.pathParams = Located(item.parameters, "path") \o Located(own, "path")
                    /\ e.queryParams = Located(item.parameters, "query") \o Located(own, "query")
                    /\ e.headerParams = Located(item.parameters, "header") \o Located(own, "header")
                    /\ Len(e.pathParams) + Len(e.queryParams) + Len(e.headerParams) =
                          Len(SelectSeq(item.parameters \o own,
                                        LAMBDA p : p.in \in {"path", "query", "header"}))

\* an operation that declares again a path parameter of its path item, and a
\* cookie and a formData parameter
C28_Witness ==
    /\ Parsed
    /\ \E i \in 1..Len(last.paths) :
          \E m \in DOMAIN last.paths[i].operations :
              LET item == last.paths[i]
                  own == item.operations[m].parameters
              IN  /\ \E a \in 1..Len(item.parameters), b \in 1..Len(own) :
                        /\ item.parameters[a].name = own[b].name
                        /\ item.parameters[a].in = "path" /\ own[b].in = "path"
                  /\ Len(EndpointOf(i, m).pathParams) = 2
                  /\ \E b \in 1..Len(own) : own[b].in = "cookie"
                  /\ \E b \in 1..Len(own) : own[b].in = "formData"

RequestBuilt == last.op = "requestInit"

\* C24: in Full mode, for an endpoint that declares a request body and an
\* argument mapping with a key body of any defined value (an object, and
\* also false, 0, the empty string or null), the body of the outbound request
\* is the JSON serialization of that value
C24_BodyArgumentSentAsIs ==
    (/\ RequestBuilt /\ last.route = "full"
     /\ last.endpoint.requestBody.present
     /\ s_body \in DOMAIN last.args) =>
        last.init.body = [present |-> TRUE, json |-> last.args[s_body]]

\* the entries of the argument mapping that residual collection keeps
Residual ==
    LET declared == {last.endpoint.pathParams[k].name : k \in 1..Len(last.endpoint.pathParams)}
                    \cup {last.endpoint.queryParams[k].name : k \in 1..Len(last.endpoint.queryParams)}
        keys == {k \in DOMAIN last.args :
                    k \notin declared /\ (last.route = "search" => k # s_endpoint_id)}
    IN  [k \in keys |-> last.args[k]]

\* C25: under residual collection (Full mode without a body argument, and
\* Search mode), for an endpoint that declares a request body the body of the
\* request is the JSON object of the argument entries whose key is no path
\* parameter, no query parameter and, in Search mode, not endpoint_id; no body
\* is sent when there is no such entry
C25_ResidualBody ==
    (/\ RequestBuilt /\ last.endpoint.requestBody.present
     /\ (last.route = "search" \/ s_body \notin DOMAIN last.args)) =>
        last.init.body =
            IF DOMAIN Residual = {} THEN [present |-> FALSE, json |-> Undefined]
            ELSE [present |-> TRUE, json |-> Obj(Residual)]

\* in Search mode a path parameter and endpoint_id are left out, and an entry
\* named like a header parameter is kept with another one
C25_Witness ==
    /\ RequestBuilt /\ last.route = "search"
    /\ last.endpoint.requestBody.present
    /\ s_endpoint_id \in DOMAIN last.args
    /\ \E k \in 1..Len(last.endpoint.headerParams) :
          last.endpoint.headerParams[k].name \in DOMAIN Residual
    /\ Cardinality(DOMAIN Residual) = 2
    /\ last.init.body.present

\* the headers getAuthHeaders gives for the configured auth are on the
\* request, and the request goes to the API, not to the token URL
Decorated(o) ==
    LET computed == getAuthHeaders(config.auth)
    IN  /\ server.authHeaders = computed
        /\ \A k \in 1..Len(computed) :
              /\ toLowerCase(computed[k][1]) \in DOMAIN o.request.headers
              /\ o.request.headers[toLowerCase(computed[k][1])] = computed[k][2]
        /\ startsWith(o.request.url, server.baseUrl)
        /\ ~startsWith(o.request.url, config.auth.tokenUrl)

NoTokenConfigured == config.auth.type = "oauth2" /\ config.auth.token = <<>>

\* C29: the auth headers on the outbound requests are the ones computed from
\* the configured auth when the server was created, the same for every
\* invocation; no server exchanges the client credentials for a token, so
\* with the type oauth2 and no token no outbound request carries an
\* Authorization header, the token URL, client id and client secret being
\* configured
C29_NoAuthorizationWithoutToken ==
    \A o \in Outbound :
        /\ Decorated(o)
        /\ NoTokenConfigured =>
              toLowerCase(s_Authorization) \notin DOMAIN o.request.headers

\* C29, amended: with the type oauth2 and no token the authenticator adds no
\* header, and a request carries an Authorization header only when, in Full
\* mode, its endpoint declares a header parameter of that name and the
\* arguments give it a value
C29_NoAuthorizationFromAuthenticator ==
    \A o \in Outbound :
        /\ Decorated(o)
        /\ NoTokenConfigured =>
              /\ server.authHeaders = <<>>
              /\ toLowerCase(s_Authorization) \in DOMAIN o.request.headers =>
                    /\ mode = "full"
                    /\ \E k \in 1..Len(server.tools[o.tool].endpoint.headerParams) :
                          LET name == server.tools[o.tool].endpoint.headerParams[k].name
                          IN  /\ toLowerCase(name) = toLowerCase(s_Authorization)
                              /\ name \in DOMAIN o.args
                              /\ o.request.headers[toLowerCase(name)] = String(o.args[name])

\* with oauth2 and no token a request without Authorization header was
\* answered while another one was waiting
C29_Witness ==
    /\ NoTokenConfigured
    /\ Invoked /\ last.awaited /\ last.overlapped
    /\ toLowerCase(s_Authorization) \notin DOMAIN last.sent[1].headers
    /\ \E o \in Outbound : o.request = last.sent[1]

\* the name an invocation asks for: the tool name in Full mode, the
\* endpoint_id given to call_endpoint in Search mode
AskedName(name, args) ==
    IF mode = "full" THEN name
    ELSE IF name = s_call_endpoint /\ Get(args, s_endpoint_id).t = "string"
    THEN Get(args, s_endpoint_id).v
    ELSE <<>>

\* the invocation went to the first tool of the name it asked for
FirstOfName(name, args, tool, request) ==
    /\ server.tools[tool].name = AskedName(name, args)
    /\ \A j \in 1..(tool - 1) : server.tools[j].name # server.tools[tool].name
    /\ request.url = buildUrl(server.baseUrl, server.tools[tool].endpoint, args)

\* C30: when two endpoints give the same tool name both tools stay in the
\* generated list and in the listing of Full mode, and every invocation by
\* that name, in Full mode and through call_endpoint, goes to the endpoint
\* that comes first; the later one is never invoked
C30_FirstOfCollidingNames ==
    /\ Len(server.tools) = Len(parseSpec(config.spec).endpoints)
    /\ (mode = "full" /\ last.op = "list") =>
          [i \in 1..Len(last.listed) |-> last.listed[i].name]
              = [i \in 1..Len(server.tools) |-> generateToolName(parseSpec(config.spec).endpoints[i])]
    /\ \A s \in Slots :
          inflight[s] # Idle =>
              FirstOfName(inflight[s].name, inflight[s].args, inflight[s].tool,
                          inflight[s].sent[1])
    /\ (Invoked /\ last.awaited) =>
          FirstOfName(last.name, last.args, last.tool, last.sent[1])
    /\ (Invoked /\ ~last.awaited) =>
          \/ last.tool = 0
          \/ \A j \in 1..(last.tool - 1) :
                server.tools[j].name # server.tools[last.tool].name

\* an invocation through call_endpoint by a name that two different endpoints
\* give was answered
C30_Witness ==
    /\ mode = "search" /\ Invoked /\ last.awaited
    /\ last.tool = 1
    /\ \E j \in 2..Len(server.tools) :
          /\ server.tools[j].name = server.tools[1].name
          /\ server.tools[j].endpoint # server.tools[1].endpoint


====
